---- MODULE Spec2Model ----
(***************************************************************************)
(* Content API of the portfolio site: the express server (login, bearer    *)
(* token middleware, blog routes, the generic collection routes, upload)   *)
(* over the eight mongoose collections.                                    *)
(*                                                                         *)
(* One action is one request handled to completion, except a reorder,      *)
(* whose per-item updates interleave with other requests (SpecReorder).    *)
(* A request that a middleware answers (401, 429) never reaches its        *)
(* handler.  The rate limiters count the requests of SpecLimit; the other  *)
(* specifications stay below their budgets (100 and 5 per window).         *)
(*                                                                         *)
(* The pages of the client: the blog post page (SpecPost), the gallery     *)
(* (SpecGallery) and the admin console (SpecTabs, SpecOrder, SpecForm,     *)
(* SpecFilter).  A handler of the console is one step up to its await and  *)
(* one step for the answer of the server with the rest of the handler;     *)
(* the answers of requests in flight arrive in any order.  The console     *)
(* specifications other than SpecTabs start over a store that earlier      *)
(* requests have filled.                                                   *)
(***************************************************************************)
EXTENDS Integers, Sequences, FiniteSets, TLC

\* ---------------------------------------------------------------- bounds
\* documents ever created (ObjectIds are 1..MaxDocs, never reused)
MaxDocs == 2
\* last value of the clock
MaxClock == 1
\* reorder requests whose updates are in flight at the same time
MaxInflight == 2
\* lines of the markdown of a blog post
MaxLines == 4
\* requests of the admin console that await their response
MaxCalls == 2
\* documents in the collection the admin console lists
MaxRows == 3

\* ------------------------------------------------------------- constants
\* jwt.sign(..., { expiresIn: '24h' }): one clock unit is 24 hours
TokenTtl == 1
\* rateLimit({ max }) of the general limiter and of the login limiter, in
\* production (ten times as many otherwise)
ApiMax == 100
LoginMax == 5
\* the missing date and the missing string of a document
NoDate == -1
Undef == "<undefined>"
\* a path segment that is not an ObjectId
BadId == 0

Times == 0..MaxClock
Ids == 1..MaxDocs
IdParams == Ids \cup {BadId}

Collections ==
  {"blog", "photography", "videos", "experience", "projects", "skills",
   "courses", "creatives"}

\* ---------------------------------------------------------------- schema
RequiredFields(c) ==
  CASE c = "blog" -> {"title", "slug", "content", "excerpt"}
    [] c = "photography" -> {"title", "imageUrl"}
    [] c = "videos" -> {"title", "youtubeId"}
    [] c = "experience" -> {"title", "company", "startDate", "type"}
    [] c = "projects" -> {"name", "description"}
    [] c = "skills" -> {"category"}
    [] c = "courses" -> {"name"}
    [] c = "creatives" -> {"title"}

\* fields with an enum validator, and the values it admits
EnumFields(c) ==
  CASE c = "photography" -> {"category"}
    [] c = "experience" -> {"type"}
    [] OTHER -> {}

EnumValues(c, f) ==
  CASE c = "photography" /\ f = "category" ->
         {"portrait", "landscape", "street", "event", "other"}
    [] c = "experience" /\ f = "type" -> {"work", "education", "volunteer"}
    [] OTHER -> {}

\* fields with trim: true
TrimFields(c) ==
  CASE c \in {"blog", "photography", "videos", "creatives"} -> {"title"}
    [] c = "skills" -> {"category"}
    [] c = "courses" -> {"name"}
    [] OTHER -> {}

\* the fields of a stored document (the optional fields that carry no
\* validator and no setter, and that no filter of the client reads, are left
\* out)
Fields(c) ==
  RequiredFields(c) \cup {"_id", "createdAt", "order"} \cup
  (CASE c = "blog" -> {"published", "publishedAt"}
     [] c \in {"photography", "videos", "creatives"} -> {"category", "tags"}
     [] c = "skills" -> {"skills"}
     [] OTHER -> {})

Default(c, f) ==
  CASE f = "order" -> 0
    [] f = "published" -> FALSE
    [] f = "publishedAt" -> NoDate
    [] f = "category" /\ c = "photography" -> "other"
    [] f = "category" /\ c = "videos" -> "general"
    [] f = "category" /\ c = "creatives" -> ""
    [] f \in {"tags", "skills"} -> <<>>
    [] OTHER -> Undef

\* String.prototype.toLowerCase and trim on the strings of the model
Lower(s) ==
  CASE s = "A" -> "a" [] s = "ALL" -> "all" [] s = "WARNING" -> "warning"
    [] OTHER -> s
Trim(s) ==
  CASE s = " x" -> "x" [] s = " " -> "" [] s = " go" -> "go" [] OTHER -> s

\* the setters mongoose runs when it casts a value of field f
Cast(c, f, v) ==
  IF c = "blog" /\ f = "slug" THEN Lower(v)
  ELSE IF f \in TrimFields(c) THEN Trim(v)
  ELSE IF f = "tags" THEN [i \in DOMAIN v |-> Trim(v[i])]
  ELSE v

\* document validation: required (a required string may not be empty) and enum
Valid(c, doc) ==
  /\ \A f \in RequiredFields(c) : doc[f] \notin {Undef, ""}
  /\ \A f \in EnumFields(c) : doc[f] = Undef \/ doc[f] \in EnumValues(c, f)
  /\ c = "skills" => \A i \in DOMAIN doc.skills : doc.skills[i].name # ""

VARIABLES
  now,        \* the clock
  configured, \* ADMIN_PASSWORD_HASH and JWT_SECRET are set in the environment
  issued,     \* iat of the tokens LOGIN has signed
  nextId,     \* the next ObjectId
  db,         \* db[c]: the documents of collection c, by _id
  cloud,      \* the folders of the object storage service that hold an image
  supplied,   \* posts whose publishedAt some request body has supplied
  last,       \* the last request and its response
  inflight,   \* the reorder requests whose updates are in flight
  hits,       \* the requests each rate limiter has counted in its window
  made,       \* made[id]: the body that created document id, while no
              \* later request has named the document
  page,       \* the blog post page: the markdown of the post it shows and
              \* the elements into which the admonitions were rewritten
  gallery,    \* the state of the gallery page (Creatives)
  admin       \* the state of the admin console (Admin), with the requests
              \* that await their response

vars ==
  <<now, configured, issued, nextId, db, cloud, supplied, last, inflight,
    hits, made, page, gallery, admin>>

\* ---------------------------------------------------------------- tokens
\* the Authorization header: absent, a string that is no JWT, or a JWT
\* signed with the server's key or with another key at time iat
NoToken == [key |-> "none", iat |-> 0]
Garbage == [key |-> "garbage", iat |-> 0]
Forged == [key : {"other"}, iat : {0}]
Issued == [key : {"server"}, iat : issued]
Tokens == {NoToken, Garbage} \cup Forged \cup Issued

\* jwt.verify(token, JWT_SECRET): signature, then clockTimestamp >= exp
VerifyLate(tok) ==
  /\ configured
  /\ tok.key = "server"
  /\ now <= tok.iat + TokenTtl
Verify(tok) ==
  /\ configured
  /\ tok.key = "server"
  /\ now < tok.iat + TokenTtl

\* the request passes authMiddleware
Authorized(tok) == tok.key # "none" /\ Verify(tok)

NoBody == <<>>

\* no request is being answered
NoRequest ==
  [op |-> "none", coll |-> "none", id |-> BadId, slug |-> "", tok |-> NoToken,
   body |-> NoBody, status |-> 0, msg |-> "", out |-> <<>>]

Idle == last = NoRequest

\* res.status(status).json(...): out is the documents (or the token) sent
Respond(op, c, id, slug, tok, body, status, msg, out) ==
  last' = [op |-> op, coll |-> c, id |-> id, slug |-> slug, tok |-> tok,
           body |-> body, status |-> status, msg |-> msg, out |-> out]

\* body with field f set to v, and body without field f
With(body, f, v) ==
  [g \in DOMAIN body \cup {f} |-> IF g = f THEN v ELSE body[g]]
Without(body, f) == [g \in DOMAIN body \ {f} |-> body[g]]
Truthy(body, f) == f \in DOMAIN body /\ body[f] = TRUE

\* ----------------------------------------------------------- persistence
Has(c, id) == id \in DOMAIN db[c]

\* new Model(body): defaults, then the cast of the supplied fields
NewDocNoOrder(c, id, body) ==
  [f \in Fields(c) |->
     IF f = "_id" THEN id
     ELSE IF f = "createdAt" THEN now
     ELSE IF f \in DOMAIN body \ {"order"} THEN Cast(c, f, body[f])
     ELSE Default(c, f)]
NewDoc(c, id, body) ==
  [f \in Fields(c) |->
     IF f = "_id" THEN id
     ELSE IF f = "createdAt" THEN now
     ELSE IF f \in DOMAIN body THEN Cast(c, f, body[f])
     ELSE Default(c, f)]

\* the $set of findByIdAndUpdate: the supplied fields, cast, no validation
ApplyUpdate(c, doc, body) ==
  [f \in Fields(c) |->
     IF f \in DOMAIN body THEN Cast(c, f, body[f]) ELSE doc[f]]

\* the unique index on BlogPost.slug
NoUniqueIndex(c, id, doc) == FALSE
DuplicateKey(c, id, doc) ==
  /\ c = "blog"
  /\ \E j \in DOMAIN db[c] : j # id /\ db[c][j].slug = doc.slug

Put(c, id, doc) ==
  [db EXCEPT ![c] = [j \in DOMAIN db[c] \cup {id} |->
                       IF j = id THEN doc ELSE db[c][j]]]

RemoveAll(c, id) == [db EXCEPT ![c] = <<>>]
Remove(c, id) ==
  [db EXCEPT ![c] = [j \in DOMAIN db[c] \ {id} |-> db[c][j]]]

\* find(...).sort({ key: -1 }): the sequences that list the documents of ids
\* by descending key; documents of equal key come in either order
SortDesc(c, ids, key) ==
  {[i \in 1..Cardinality(ids) |-> db[c][s[i]]] :
     s \in {t \in [1..Cardinality(ids) -> ids] :
              /\ \A i, j \in 1..Cardinality(ids) : i # j => t[i] # t[j]
              /\ \A i, j \in 1..Cardinality(ids) :
                   i < j => db[c][t[i]][key] >= db[c][t[j]][key]}}

\* ------------------------------------------------------------ the client
\* the response has been sent; the server takes the next request
Receive ==
  /\ ~Idle
  /\ last' = NoRequest
  /\ UNCHANGED <<now, configured, issued, nextId, db, cloud, supplied>>

Tick ==
  /\ Idle
  /\ now < MaxClock
  /\ now' = now + 1
  /\ UNCHANGED <<configured, issued, nextId, db, cloud, supplied, last>>

\* ------------------------------------------------------------------ auth
\* app.post('/api/admin/login')
Login(password) ==
  /\ Idle
  /\ UNCHANGED <<now, configured, nextId, db, cloud, supplied>>
  /\ IF ~configured
     THEN /\ Respond("LOGIN", "admin", BadId, "", NoToken, [password |-> password],
                     500, "Server auth not configured", <<>>)
          /\ UNCHANGED issued
     ELSE IF password = Undef
     THEN /\ Respond("LOGIN", "admin", BadId, "", NoToken, [password |-> password],
                     500, "Login failed", <<>>)
          /\ UNCHANGED issued
     ELSE IF password # "secret"
     THEN /\ Respond("LOGIN", "admin", BadId, "", NoToken, [password |-> password],
                     401, "Invalid password", <<>>)
          /\ UNCHANGED issued
     ELSE /\ issued' = issued \cup {now}
          /\ Respond("LOGIN", "admin", BadId, "", NoToken, [password |-> password],
                     200, "", <<[key |-> "server", iat |-> now]>>)

\* the routes behind authMiddleware
ProtectedRoutes ==
  [op : {"CREATE", "UPDATE", "DELETE"}, coll : Collections] \cup
  [op : {"REORDER"}, coll : Collections \ {"blog"}] \cup
  {[op |-> "LIST_ALL", coll |-> "blog"], [op |-> "UPLOAD", coll |-> "upload"]}

\* the body of authMiddleware's 401: 'No token' when the header carries no
\* token, 'Invalid token' when jwt.verify throws
RejectMessage(tok) == IF tok.key = "none" THEN "No token" ELSE "Invalid token"

\* authMiddleware answers 401; the handler does not run
AuthReject(route, tok) ==
  /\ Idle
  /\ route \in ProtectedRoutes
  /\ ~Authorized(tok)
  /\ Respond(route.op, route.coll, BadId,
             IF route.op = "LIST_ALL" THEN "all" ELSE "", tok, NoBody, 401,
             RejectMessage(tok), <<>>)
  /\ UNCHANGED <<now, configured, issued, nextId, db, cloud, supplied>>

\* ------------------------------------------------------------------ blog
\* BlogPost.find({ published: true })
FindPublished == {i \in DOMAIN db["blog"] : db["blog"][i].published}

\* BlogPost.findOne({ slug, published: true }); the filter is cast as a slug
FindAnyBySlug(slug) ==
  {i \in DOMAIN db["blog"] : db["blog"][i].slug = Cast("blog", "slug", slug)}
FindPublishedBySlug(slug) ==
  {i \in DOMAIN db["blog"] :
     /\ db["blog"][i].slug = Cast("blog", "slug", slug)
     /\ db["blog"][i].published}

\* app.get('/api/blog')
GetBlog ==
  /\ Idle
  /\ \E out \in SortDesc("blog", FindPublished, "publishedAt") :
       Respond("LIST", "blog", BadId, "", NoToken, NoBody, 200, "", out)
  /\ UNCHANGED <<now, configured, issued, nextId, db, cloud, supplied>>

\* app.get('/api/blog/all')
GetBlogAll(tok) ==
  /\ Idle
  /\ Authorized(tok)
  /\ \E out \in SortDesc("blog", DOMAIN db["blog"], "createdAt") :
       Respond("LIST_ALL", "blog", BadId, "all", tok, NoBody, 200, "", out)
  /\ UNCHANGED <<now, configured, issued, nextId, db, cloud, supplied>>

\* app.get('/api/blog/:slug'); GET /api/blog/all is routed to the route above
GetBlogSlug(slug) ==
  /\ Idle
  /\ slug # "all"
  /\ LET found == FindPublishedBySlug(slug)
     IN IF found = {}
        THEN Respond("GET_ONE", "blog", BadId, slug, NoToken, NoBody, 404,
                     "Not found", <<>>)
        ELSE Respond("GET_ONE", "blog", BadId, slug, NoToken, NoBody, 200,
                     "", <<db["blog"][CHOOSE i \in found : TRUE]>>)
  /\ UNCHANGED <<now, configured, issued, nextId, db, cloud, supplied>>

\* app.post('/api/blog')
CreateBlog(tok, body) ==
  /\ Idle
  /\ Authorized(tok)
  /\ nextId <= MaxDocs
  /\ UNCHANGED <<now, configured, issued, cloud>>
  /\ LET new == NewDoc("blog", nextId, body)
         post == IF new.published /\ new.publishedAt = NoDate
                 THEN [new EXCEPT !.publishedAt = now]
                 ELSE new
     IN IF ~Valid("blog", post)
        THEN /\ Respond("CREATE", "blog", BadId, "", tok, body, 400,
                        "ValidationError", <<>>)
             /\ UNCHANGED <<nextId, db, supplied>>
        ELSE IF DuplicateKey("blog", nextId, post)
        THEN /\ Respond("CREATE", "blog", BadId, "", tok, body, 400,
                        "E11000 duplicate key", <<>>)
             /\ UNCHANGED <<nextId, db, supplied>>
        ELSE /\ db' = Put("blog", nextId, post)
             /\ nextId' = nextId + 1
             /\ supplied' = IF "publishedAt" \in DOMAIN body
                            THEN supplied \cup {nextId} ELSE supplied
             /\ Respond("CREATE", "blog", BadId, "", tok, body, 201, "",
                        <<post>>)

\* req.body.publishedAt is truthy: the body supplies a date, not null
Dated(body) == "publishedAt" \in DOMAIN body /\ body.publishedAt # NoDate

\* the $set of app.put('/api/blog/:id'): the body, with publishedAt when the
\* request publishes a post that was not published and supplies none
StampAlways(was, body) ==
  IF Truthy(body, "published") /\ ~Dated(body)
  THEN With(body, "publishedAt", now)
  ELSE body
StampOnPublish(was, body) ==
  IF /\ Truthy(body, "published")
     /\ ~was.published
     /\ ~Dated(body)
  THEN With(body, "publishedAt", now)
  ELSE body

\* app.put('/api/blog/:id')
UpdateBlog(tok, id, body) ==
  /\ Idle
  /\ Authorized(tok)
  /\ UNCHANGED <<now, configured, issued, nextId, cloud>>
  /\ IF id = BadId
     THEN /\ Respond("UPDATE", "blog", id, "", tok, body, 400, "CastError", <<>>)
          /\ UNCHANGED <<db, supplied>>
     ELSE IF ~Has("blog", id) /\ Truthy(body, "published")
     THEN \* was is null: was.published throws
          /\ Respond("UPDATE", "blog", id, "", tok, body, 400, "TypeError", <<>>)
          /\ UNCHANGED <<db, supplied>>
     ELSE IF ~Has("blog", id)
     THEN /\ Respond("UPDATE", "blog", id, "", tok, body, 404, "Not found", <<>>)
          /\ UNCHANGED <<db, supplied>>
     ELSE LET was == db["blog"][id]
              set == StampOnPublish(was, body)
              post == ApplyUpdate("blog", was, set)
          IN IF DuplicateKey("blog", id, post)
             THEN /\ Respond("UPDATE", "blog", id, "", tok, body, 400,
                             "E11000 duplicate key", <<>>)
                  /\ UNCHANGED <<db, supplied>>
             ELSE /\ db' = Put("blog", id, post)
                  /\ supplied' = IF "publishedAt" \in DOMAIN body
                                 THEN supplied \cup {id} ELSE supplied
                  /\ Respond("UPDATE", "blog", id, "", tok, body, 200, "",
                             <<post>>)

\* PUT /api/blog/reorder: no reorder route is registered for blog, and the
\* request is taken by app.put('/api/blog/:id') with the id 'reorder'
ReorderBlog(tok, body) == UpdateBlog(tok, BadId, body)

\* ----------------------------------------------- the generic collections
\* app.post('/api/<collection>')
Create(c, tok, body) ==
  /\ Idle
  /\ c # "blog"
  /\ Authorized(tok)
  /\ nextId <= MaxDocs \/ ~Valid(c, NewDoc(c, nextId, body))
  /\ UNCHANGED <<now, configured, issued, cloud, supplied>>
  /\ LET doc == NewDoc(c, nextId, body)
     IN IF ~Valid(c, doc)
        THEN /\ Respond("CREATE", c, BadId, "", tok, body, 400,
                        "ValidationError", <<>>)
             /\ UNCHANGED <<nextId, db>>
        ELSE /\ db' = Put(c, nextId, doc)
             /\ nextId' = nextId + 1
             /\ Respond("CREATE", c, BadId, "", tok, body, 201, "", <<doc>>)

\* app.put('/api/<collection>/:id'); PUT /api/<collection>/reorder, the path
\* whose last segment is not an ObjectId, is taken by the reorder route
Update(c, tok, id, body) ==
  /\ Idle
  /\ c # "blog"
  /\ id # BadId
  /\ Authorized(tok)
  /\ UNCHANGED <<now, configured, issued, nextId, cloud, supplied>>
  /\ IF ~Has(c, id)
     THEN /\ Respond("UPDATE", c, id, "", tok, body, 404, "Not found", <<>>)
          /\ UNCHANGED db
     ELSE LET doc == ApplyUpdate(c, db[c][id], body)
          IN /\ db' = Put(c, id, doc)
             /\ Respond("UPDATE", c, id, "", tok, body, 200, "", <<doc>>)

\* app.delete('/api/<collection>/:id'), blog included
Delete(c, tok, id) ==
  /\ Idle
  /\ Authorized(tok)
  /\ UNCHANGED <<now, configured, issued, nextId, cloud, supplied>>
  /\ IF id = BadId
     THEN /\ Respond("DELETE", c, id, "", tok, NoBody, 500, "CastError", <<>>)
          /\ UNCHANGED db
     ELSE IF ~Has(c, id)
     THEN /\ Respond("DELETE", c, id, "", tok, NoBody, 404, "Not found", <<>>)
          /\ UNCHANGED db
     ELSE /\ db' = Remove(c, id)
          /\ Respond("DELETE", c, id, "", tok, NoBody, 200, "Deleted", <<>>)

\* the order assignments of a reorder request, applied one after the other;
\* findByIdAndUpdate of an id that is not in the collection changes nothing
RECURSIVE ApplyOrders(_, _, _)
ApplyFirstOnly(c, docs, items) ==
  IF items = <<>> \/ Head(items).id \notin DOMAIN docs THEN docs
  ELSE [docs EXCEPT ![Head(items).id] =
          ApplyUpdate(c, docs[Head(items).id], [order |-> Head(items).order])]
ApplyOrders(c, docs, items) ==
  IF items = <<>> THEN docs
  ELSE LET it == Head(items)
           next == IF it.id \in DOMAIN docs
                   THEN [docs EXCEPT ![it.id] =
                           ApplyUpdate(c, docs[it.id], [order |-> it.order])]
                   ELSE docs
       IN ApplyOrders(c, next, Tail(items))

\* app.put('/api/<collection>/reorder'): no such route for blog
Reorder(c, tok, body) ==
  /\ Idle
  /\ c # "blog"
  /\ Authorized(tok)
  /\ UNCHANGED <<now, configured, issued, nextId, cloud, supplied>>
  /\ IF "items" \notin DOMAIN body
     THEN \* items is undefined: items.map throws
          /\ Respond("REORDER", c, BadId, "", tok, body, 400, "TypeError", <<>>)
          /\ UNCHANGED db
     ELSE /\ db' = [db EXCEPT ![c] = ApplyOrders(c, db[c], body.items)]
          /\ Respond("REORDER", c, BadId, "", tok, body, 200, "Updated", <<>>)

\* ------------------------------------------------------- the public lists
\* the order of the strings of the model under the string comparison of the
\* database ("2019" < "2021" < "x")
StrRank(str) ==
  CASE str = "" -> 0 [] str = "2019" -> 1 [] str = "2021" -> 2
    [] str = "x" -> 3 [] OTHER -> 4

\* the second key of sort({ order: 1, startDate: -1 }) and of
\* sort({ order: 1, createdAt: -1 }); the other lists have none
SecondaryKey(c, doc) ==
  CASE c = "experience" -> StrRank(doc.startDate)
    [] c = "projects" -> doc.createdAt
    [] OTHER -> 0

\* document a may come before document b in the list of collection c
PrecedesByOrderOnly(c, a, b) == a.order <= b.order
Precedes(c, a, b) ==
  \/ a.order < b.order
  \/ a.order = b.order /\ SecondaryKey(c, a) >= SecondaryKey(c, b)

\* find(query).sort(...): the sequences that list the documents ids of c in
\* that order; documents that tie on every key come in either order
ListOutputs(c, ids) ==
  {[i \in 1..Cardinality(ids) |-> db[c][s[i]]] :
     s \in {t \in [1..Cardinality(ids) -> ids] :
              /\ \A i, j \in 1..Cardinality(ids) : i # j => t[i] # t[j]
              /\ \A i, j \in 1..Cardinality(ids) :
                   i < j => Precedes(c, db[c][t[i]], db[c][t[j]])}}

\* the query of app.get('/api/experience'): req.query.type, when given;
\* the other lists take no query
FindAll(c, type) == DOMAIN db[c]
Find(c, type) ==
  IF c = "experience" /\ type # ""
  THEN {i \in DOMAIN db[c] : db[c][i].type = type}
  ELSE DOMAIN db[c]

\* app.get('/api/<collection>')
List(c, type) ==
  /\ Idle
  /\ c # "blog"
  /\ \E out \in ListOutputs(c, Find(c, type)) :
       Respond("LIST", c, BadId, "", NoToken,
               IF type = "" THEN NoBody ELSE [type |-> type], 200, "", out)
  /\ UNCHANGED <<now, configured, issued, nextId, db, cloud, supplied>>

\* ------------------------------------- reorder, one update after the other
\* findByIdAndUpdate(item.id, { order: item.order }) on the documents docs of
\* collection c: no upsert, an id that is not in the collection changes nothing
WriteItemUpsert(c, docs, it) ==
  [j \in DOMAIN docs \cup {it.id} |->
     IF j = it.id
     THEN IF j \in DOMAIN docs
          THEN ApplyUpdate(c, docs[j], [order |-> it.order])
          ELSE NewDoc(c, j, [order |-> it.order])
     ELSE docs[j]]
WriteItemOnce(c, docs, it) ==
  IF it.id \in DOMAIN docs /\ docs[it.id].order = Default(c, "order")
  THEN [docs EXCEPT ![it.id] = ApplyUpdate(c, docs[it.id], [order |-> it.order])]
  ELSE docs
WriteItem(c, docs, it) ==
  IF it.id \in DOMAIN docs
  THEN [docs EXCEPT ![it.id] = ApplyUpdate(c, docs[it.id], [order |-> it.order])]
  ELSE docs

\* catch (error) { res.status(400)... } of the reorder routes: the documents
\* after one update of request r was rejected; the other updates are not undone
RolledBack(c, docs, r) ==
  [j \in DOMAIN docs |->
     IF \E i \in DOMAIN r.body.items : r.body.items[i].id = j
     THEN [docs[j] EXCEPT !.order = Default(c, "order")]
     ELSE docs[j]]
AfterRejection(c, docs, r) == docs

RemoveAt(seq, k) == SubSeq(seq, 1, k - 1) \o SubSeq(seq, k + 1, Len(seq))

\* app.put('/api/<collection>/reorder') up to the await: items.map issues one
\* update per item; the updates then run in any order (ReorderStep)
ReorderStart(c, tok, body) ==
  /\ Idle
  /\ c # "blog"
  /\ Authorized(tok)
  /\ UNCHANGED <<now, configured, issued, nextId, db, cloud, supplied>>
  /\ IF "items" \notin DOMAIN body
     THEN \* items is undefined: items.map throws
          /\ Respond("REORDER", c, BadId, "", tok, body, 400, "TypeError", <<>>)
          /\ UNCHANGED inflight
     ELSE IF body.items = <<>>
     THEN /\ Respond("REORDER", c, BadId, "", tok, body, 200, "Updated", <<>>)
          /\ UNCHANGED inflight
     ELSE /\ Len(inflight) < MaxInflight
          /\ inflight' = Append(inflight,
                                [coll |-> c, tok |-> tok, body |-> body,
                                 todo |-> DOMAIN body.items, failed |-> FALSE])
          /\ UNCHANGED last

\* one update of the reorder request k completes.  The update of an item
\* whose id is not an ObjectId is rejected (CastError): Promise.all rejects
\* and the handler answers 400 at once, while the other updates of the
\* request still run.  When the last update resolves and none was rejected
\* the handler answers 200.
ReorderStep(k, i) ==
  /\ k \in DOMAIN inflight
  /\ i \in inflight[k].todo
  /\ UNCHANGED <<now, configured, issued, nextId, cloud, supplied>>
  /\ LET r == inflight[k]
         c == r.coll
         it == r.body.items[i]
         rest == r.todo \ {i}
         rejected == it.id = BadId
         left == [r EXCEPT !.todo = rest, !.failed = r.failed \/ rejected]
     IN /\ inflight' = IF rest = {} THEN RemoveAt(inflight, k)
                       ELSE [inflight EXCEPT ![k] = left]
        /\ IF rejected
           THEN /\ db' = [db EXCEPT ![c] = AfterRejection(c, db[c], r)]
                /\ IF r.failed THEN UNCHANGED last
                   ELSE /\ Idle
                        /\ Respond("REORDER", c, BadId, "", r.tok, r.body, 400,
                                   "CastError", <<>>)
           ELSE /\ db' = [db EXCEPT ![c] = WriteItem(c, db[c], it)]
                /\ IF rest = {} /\ ~r.failed
                   THEN /\ Idle
                        /\ Respond("REORDER", c, BadId, "", r.tok, r.body, 200,
                                   "Updated", <<>>)
                   ELSE UNCHANGED last

\* --------------------------------------------------------- rate limiting
\* All requests come from one client address.  hits[l] is the number of
\* requests limiter l has counted for it in the current window; the count
\* is kept up to one more than the maximum, beyond which it decides nothing.
Max(l) == IF l = "login" THEN LoginMax ELSE ApiMax

\* the count of limiter l after one more request
Counted(l) == IF hits[l] > Max(l) THEN hits[l] ELSE hits[l] + 1

\* rateLimit: the request is refused when it is counted above the maximum
OverLate(l) == Counted(l) > Max(l) + 1
Over(l) == Counted(l) > Max(l)

\* app.use('/api/', limiter): the request passes the general limiter
AdmitApi ==
  /\ ~Over("api")
  /\ hits' = [hits EXCEPT !.api = Counted("api")]

\* app.use('/api/admin/login', loginLimiter), then the general limiter
AdmitLogin ==
  /\ ~Over("login")
  /\ ~Over("api")
  /\ hits' = [login |-> Counted("login"), api |-> Counted("api")]

\* a limiter answers 429; no later middleware and no handler runs.  A login
\* request is counted by the login limiter first and reaches the general
\* limiter only when the login limiter lets it pass.
TooMany(op, c, tok, body) ==
  /\ Idle
  /\ UNCHANGED <<now, configured, issued, nextId, db, cloud, supplied>>
  /\ IF op = "LOGIN" /\ Over("login")
     THEN /\ hits' = [hits EXCEPT !.login = Counted("login")]
          /\ Respond(op, c, BadId, "", tok, body, 429,
                     "Too many login attempts", <<>>)
     ELSE /\ Over("api")
          /\ hits' = [login |-> IF op = "LOGIN" THEN Counted("login")
                                ELSE hits.login,
                      api |-> Counted("api")]
          /\ Respond(op, c, BadId, "", tok, body, 429, "Too many requests",
                     <<>>)

\* windowMs has passed: the store of limiter l forgets its counts
WindowReset(l) ==
  /\ Idle
  /\ hits[l] > 0
  /\ hits' = [hits EXCEPT ![l] = 0]
  /\ UNCHANGED <<now, configured, issued, nextId, db, cloud, supplied, last>>

\* app.get('/api/health')
Health ==
  /\ Idle
  /\ Respond("HEALTH", "health", BadId, "", NoToken, NoBody, 200, "OK", <<>>)
  /\ UNCHANGED <<now, configured, issued, nextId, db, cloud, supplied>>

\* ---------------------------------------------------------------- upload
\* app.post('/api/upload'): multer's fileFilter, then the handler; upstream
\* is the outcome of cloudinary.uploader.upload_stream
Upload(tok, file, folder, upstream) ==
  /\ Idle
  /\ Authorized(tok)
  /\ UNCHANGED <<now, configured, issued, nextId, db, supplied>>
  /\ LET body == [file |-> file, folder |-> folder, upstream |-> upstream]
     IN IF file = "none"
        THEN /\ Respond("UPLOAD", "upload", BadId, "", tok, body, 400,
                        "No image file provided", <<>>)
             /\ UNCHANGED cloud
        ELSE IF file # "image"
        THEN \* cb(new Error(...)) reaches the error-handling middleware
             /\ Respond("UPLOAD", "upload", BadId, "", tok, body, 500,
                        "Error!", <<>>)
             /\ UNCHANGED cloud
        ELSE IF upstream # "ok"
        THEN /\ Respond("UPLOAD", "upload", BadId, "", tok, body, 500,
                        "Upload failed", <<>>)
             /\ UNCHANGED cloud
        ELSE /\ cloud' = cloud \cup {folder}
             /\ Respond("UPLOAD", "upload", BadId, "", tok, body, 200, "", <<>>)

\* --------------------------------------------------- the blog post page
\* Object.keys(ADMONITION_ICONS)
ADMONITION_TYPES ==
  {"note", "info", "tip", "success", "hint", "warning", "caution",
   "attention", "danger", "error", "bug", "example", "abstract", "question",
   "quote", "failure"}

\* the lines of a post: a delimiter followed by a keyword and maybe a title,
\* a delimiter alone, a line of text (tail: the delimiter it ends with, if
\* any), and an empty line
Openers ==
  {[kind |-> "open", delim |-> ":::", type |-> "warning", title |-> "Careful"],
   [kind |-> "open", delim |-> "!!!", type |-> "WARNING", title |-> ""],
   [kind |-> "open", delim |-> ":::", type |-> "potato", title |-> ""]}
Closers == {[kind |-> "close", delim |-> d] : d \in {":::", "!!!"}}
TextLines ==
  {[kind |-> "text", text |-> "Do not do X", tail |-> ""],
   [kind |-> "text", text |-> "Stop", tail |-> "!!!"]}
BlankLine == [kind |-> "blank"]
MdLines == Openers \cup Closers \cup TextLines \cup {BlankLine}
Markdowns == UNION {[1..n -> MdLines] : n \in 0..MaxLines}

\* no post is shown
NoPage == [markdown |-> <<>>, html |-> <<>>]

\* typeLower.charAt(0).toUpperCase() + typeLower.slice(1)
Capitalize(s) ==
  CASE s = "warning" -> "Warning" [] s = "potato" -> "Potato" [] OTHER -> s

\* the line matches ^(?::::|!!!) *(\w+)(?: +(.+))?\n
Opens(l) == l.kind = "open"

\* (?::::|!!!)\s*$ matches in the line: the line ends with a delimiter
Ends(l) == l.kind = "close" \/ (l.kind = "text" /\ l.tail # "")

\* what the line holds before the delimiter it ends with
Before(l) == IF l.kind = "text" THEN <<[l EXCEPT !.tail = ""]>> ELSE <<>>

\* ([\s\S]*?)(?::::|!!!)\s*$ : the first line after line i that ends with a
\* delimiter, 0 when there is none
FirstEnd(m, i) ==
  IF \E j \in i + 1..Len(m) : Ends(m[j])
  THEN CHOOSE j \in i + 1..Len(m) :
         Ends(m[j]) /\ \A k \in i + 1..j - 1 : ~Ends(m[k])
  ELSE 0

\* \s*$ after the closing delimiter: the empty lines that end the text
\* belong to the match
MatchEnd(m, j) ==
  IF \A k \in j + 1..Len(m) : m[k] = BlankLine THEN Len(m) ELSE j

\* body.trim()
RECURSIVE TrimBody(_)
TrimBody(b) ==
  IF b = <<>> THEN b
  ELSE IF Head(b) = BlankLine THEN TrimBody(Tail(b))
  ELSE IF b[Len(b)] = BlankLine THEN TrimBody(SubSeq(b, 1, Len(b) - 1))
  ELSE b

\* the <div class="admonition admonition-${typeLower}"> the callback returns
Container(type, title, body) ==
  [kind |-> "admonition", type |-> Lower(type),
   title |-> IF title # "" THEN title ELSE Capitalize(Lower(type)),
   body |-> TrimBody(body)]

\* markdown.replace(regex, callback) from line i on: the matches are found
\* from left to right and do not overlap
RECURSIVE Replace(_, _)
Replace(m, i) ==
  IF i > Len(m) THEN <<>>
  ELSE LET j == FirstEnd(m, i)
       IN IF ~Opens(m[i]) \/ j = 0 THEN <<m[i]>> \o Replace(m, i + 1)
          ELSE IF Lower(m[i].type) \notin ADMONITION_TYPES
          THEN SubSeq(m, i, MatchEnd(m, j)) \o Replace(m, MatchEnd(m, j) + 1)
          ELSE <<Container(m[i].type, m[i].title,
                           SubSeq(m, i + 1, j - 1) \o Before(m[j]))>>
               \o Replace(m, MatchEnd(m, j) + 1)

preprocessAdmonitions(markdown) == Replace(markdown, 1)

\* the server and the other pages take no step
ServerIdle ==
  UNCHANGED <<now, configured, issued, nextId, db, cloud, supplied, last,
              inflight, hits, made>>

\* fetchPost, setPost, parseMarkdown(post.content): the page, mounted for
\* one slug, shows the post whose content is m
ShowPost(m) ==
  /\ page = NoPage
  /\ page' = [markdown |-> m, html |-> preprocessAdmonitions(m)]
  /\ ServerIdle
  /\ UNCHANGED <<gallery, admin>>

\* ------------------------------------------------------ the gallery page
\* photos, videos, others
Sections == {"photos", "videos", "others"}

\* the documents the three LIST requests can answer with
Catalogue(s) ==
  CASE s = "photos" ->
         {[id |-> 1, category |-> "landscape", tags |-> <<"sunset">>],
          [id |-> 2, category |-> "portrait", tags |-> <<"bw", "">>]}
    [] s = "videos" ->
         {[id |-> 1, category |-> "vlog", tags |-> <<"travel">>],
          [id |-> 2, category |-> "vlog", tags |-> <<"food", "travel">>]}
    [] s = "others" ->
         {[id |-> 1, category |-> "", tags |-> <<"art">>],
          [id |-> 2, category |-> "design", tags |-> <<>>]}

\* useState([]), useState(true), useState(null), useState('all'); effects
\* holds the sections whose effect on the category filter has yet to run
GalleryMounted ==
  [loading |-> TRUE, error |-> FALSE,
   items |-> [s \in Sections |-> {}],
   category |-> [s \in Sections |-> "all"],
   tag |-> [s \in Sections |-> "all"],
   effects |-> {},
   clicked |-> [filter |-> "none", section |-> "none"]]

\* the elements of a sequence
Range(seq) == {seq[i] : i \in DOMAIN seq}

\* photoCategories, videoCategories, othersCategories
GalleryCategories(s) ==
  {item.category : item \in gallery.items[s]} \ {""}

\* photoTags, videoTags, othersTags
GalleryTagsOfAll(s) ==
  UNION {Range(item.tags) : item \in gallery.items[s]} \ {""}
GalleryTags(s) ==
  LET scoped == IF gallery.category[s] # "all"
                THEN {item \in gallery.items[s] :
                        item.category = gallery.category[s]}
                ELSE gallery.items[s]
  IN UNION {Range(item.tags) : item \in scoped} \ {""}

\* the page shows the sections, and no effect is waiting to run
GalleryShown ==
  ~gallery.loading /\ ~gallery.error /\ gallery.effects = {}

\* fetchAllData: the three lists arrive; the featured items are kept
FetchAllData(featured) ==
  /\ gallery.loading
  /\ gallery' = [gallery EXCEPT !.loading = FALSE, !.items = featured]
  /\ ServerIdle
  /\ UNCHANGED <<page, admin>>

\* fetchAllData: one of the three requests fails
FetchAllDataFails ==
  /\ gallery.loading
  /\ gallery' = [gallery EXCEPT !.loading = FALSE, !.error = TRUE]
  /\ ServerIdle
  /\ UNCHANGED <<page, admin>>

\* a button of the category row of section s: onSelect = set...CategoryFilter.
\* The row is rendered when the section has items and a category; a state
\* that does not change schedules no effect
SelectCategory(s, c) ==
  /\ GalleryShown
  /\ gallery.items[s] # {}
  /\ GalleryCategories(s) # {}
  /\ c \in {"all"} \cup GalleryCategories(s)
  /\ gallery' =
       [gallery EXCEPT
          !.category[s] = c,
          !.effects = IF c # gallery.category[s] THEN {s} ELSE {},
          !.clicked = [filter |-> "category", section |-> s]]
  /\ ServerIdle
  /\ UNCHANGED <<page, admin>>

\* a button of the tag row of section s: onSelect = set...TagFilter
SelectTag(s, t) ==
  /\ GalleryShown
  /\ gallery.items[s] # {}
  /\ GalleryTags(s) # {}
  /\ t \in {"all"} \cup GalleryTags(s)
  /\ gallery' =
       [gallery EXCEPT
          !.tag[s] = t,
          !.clicked = [filter |-> "tag", section |-> s]]
  /\ ServerIdle
  /\ UNCHANGED <<page, admin>>

\* useEffect(() => { set...TagFilter('all'); }, [...CategoryFilter])
CategoryEffect(s) ==
  /\ s \in gallery.effects
  /\ gallery' =
       [gallery EXCEPT !.tag[s] = "all", !.effects = @ \ {s}]
  /\ ServerIdle
  /\ UNCHANGED <<page, admin>>

\* ----------------------------------------------------- the admin console
\* the message line of the console: nothing, a success, an error with the
\* text that follows 'Error: '
NoMessage == [kind |-> "none", text |-> ""]
Success(text) == [kind |-> "ok", text |-> text]
Failure(text) == [kind |-> "error", text |-> text]

\* the useState initial values of Admin; calls holds the requests that await
\* their response, listed the endpoint whose list the items were taken
\* from, timer whether a setTimeout(() => setMessage('')) is pending
AdminMounted ==
  [isAuthenticated |-> FALSE, token |-> NoToken, activeTab |-> "home",
   homeSubTab |-> "experience", creativesSubTab |-> "photo",
   viewMode |-> "manage", formData |-> NoBody, message |-> NoMessage,
   items |-> <<>>, loading |-> FALSE, editingId |-> BadId,
   typeFilter |-> "work", adminTagFilter |-> "all",
   adminCategoryFilter |-> "all", calls |-> <<>>, listed |-> "none",
   timer |-> FALSE]

\* the endpoint fetchHomeItems, fetchCreativesItems and fetchItems address
EndpointOf(a) ==
  IF a.activeTab = "home" THEN a.homeSubTab
  ELSE IF a.activeTab = "creatives"
  THEN CASE a.creativesSubTab = "video" -> "videos"
         [] a.creativesSubTab = "others" -> "creatives"
         [] OTHER -> "photography"
  ELSE "blog"

\* setLoading(true) and the GET of the list of endpoint e
Fetch(a, e) ==
  [a EXCEPT !.loading = TRUE,
            !.calls = Append(@, [kind |-> "list", endpoint |-> e])]

\* the useEffect on [activeTab, homeSubTab, creativesSubTab, viewMode,
\* isAuthenticated], run after a handler has left the console in state a
FetchEffect(a) ==
  IF /\ <<a.activeTab, a.homeSubTab, a.creativesSubTab, a.viewMode,
          a.isAuthenticated>> #
        <<admin.activeTab, admin.homeSubTab, admin.creativesSubTab,
          admin.viewMode, admin.isAuthenticated>>
     /\ a.isAuthenticated
     /\ a.viewMode = "manage"
  THEN Fetch(a, EndpointOf(a))
  ELSE a

\* the console takes a step by itself, or with the server
ConsoleAlone == ServerIdle /\ UNCHANGED <<page, gallery>>
ConsoleServed == UNCHANGED <<inflight, hits, made, page, gallery>>

\* the console is mounted, logged in, with room for its requests
Console(a) ==
  /\ admin.isAuthenticated
  /\ Len(a.calls) <= MaxCalls
  /\ admin' = a

\* AdminAuth.handleLogin, and onLogin
HandleLogin(password) ==
  /\ ~admin.isAuthenticated
  /\ Login(password)
  /\ ConsoleServed
  /\ admin' = IF last'.status = 200
              THEN FetchEffect([admin EXCEPT !.token = last'.out[1],
                                             !.isAuthenticated = TRUE])
              ELSE admin

\* what the three tab handlers have in common
TabReset(a) ==
  [a EXCEPT !.viewMode = "manage", !.editingId = BadId, !.formData = NoBody,
            !.message = NoMessage, !.items = <<>>, !.listed = "none",
            !.adminTagFilter = "all", !.adminCategoryFilter = "all"]

HandleTabChange(newTab) ==
  /\ Console(FetchEffect([TabReset(admin) EXCEPT !.activeTab = newTab,
                                                 !.typeFilter = "work"]))
  /\ ConsoleAlone

HandleHomeSubTabChange(newSubTab) ==
  /\ admin.activeTab = "home"
  /\ Console(FetchEffect([TabReset(admin) EXCEPT !.homeSubTab = newSubTab,
                                                 !.typeFilter = "work"]))
  /\ ConsoleAlone

HandleCreativesSubTabChange(newSubTab) ==
  /\ admin.activeTab = "creatives"
  /\ Console(FetchEffect([TabReset(admin) EXCEPT
                            !.creativesSubTab = newSubTab]))
  /\ ConsoleAlone

\* the Create New and Manage buttons
SetViewMode(mode) ==
  /\ Console(FetchEffect([admin EXCEPT !.viewMode = mode,
                                       !.editingId = BadId,
                                       !.formData = NoBody]))
  /\ ConsoleAlone

\* the server answers the list request calls[k]; setItems(response.data) in
\* the try, setMessage in the catch, setLoading(false) in the finally of
\* fetchHomeItems, fetchCreativesItems, fetchItems
FetchDone(k) ==
  /\ admin.calls[k].kind = "list"
  /\ LET e == admin.calls[k].endpoint
     IN /\ IF e = "blog"
           THEN \/ GetBlogAll(admin.token)
                \/ AuthReject([op |-> "LIST_ALL", coll |-> "blog"],
                              admin.token)
           ELSE List(e, "")
        /\ ConsoleServed
        /\ admin' =
             [admin EXCEPT
                !.calls = RemoveAt(@, k),
                !.loading = FALSE,
                !.items = IF last'.status = 200 THEN last'.out ELSE @,
                !.listed = IF last'.status = 200 THEN e ELSE @,
                !.message = IF last'.status = 200 THEN @
                            ELSE Failure("loading items")]

\* item[f], or the value the code reads when the item has no field f
ItemField(item, f, none) == IF f \in DOMAIN item THEN item[f] ELSE none

\* availableTags, availableCategories
AvailableTags ==
  UNION {Range(ItemField(admin.items[i], "tags", <<>>)) :
           i \in DOMAIN admin.items} \ {""}
AvailableCategories ==
  {ItemField(admin.items[i], "category", "") : i \in DOMAIN admin.items}
    \ {"", Undef}

\* the predicate of filteredItems
Shows(a, item) ==
  /\ (a.activeTab = "home" /\ a.homeSubTab = "experience") =>
       ItemField(item, "type", Undef) = a.typeFilter
  /\ a.adminCategoryFilter = "all" \/
       ItemField(item, "category", Undef) = a.adminCategoryFilter
  /\ a.adminTagFilter = "all" \/
       a.adminTagFilter \in Range(ItemField(item, "tags", <<>>))

\* filteredItems: the items of the list that pass the filters, in order
RECURSIVE Filtered(_, _)
Filtered(a, items) ==
  IF items = <<>> THEN <<>>
  ELSE IF Shows(a, Head(items))
  THEN <<Head(items)>> \o Filtered(a, Tail(items))
  ELSE Filtered(a, Tail(items))
FilteredItems == Filtered(admin, admin.items)

\* findIndex(item => item._id === itemId): the index from 0, or -1
FindIndex(items, itemId) ==
  IF \E i \in DOMAIN items : items[i]._id = itemId
  THEN (CHOOSE i \in DOMAIN items : items[i]._id = itemId) - 1
  ELSE -1

\* the list of the manage view is rendered
ManageView == admin.viewMode = "manage" /\ ~admin.loading

\* the type buttons of the experience list
SetTypeFilter(type) ==
  /\ admin.activeTab = "home" /\ admin.homeSubTab = "experience"
  /\ admin.viewMode = "manage"
  /\ Console([admin EXCEPT !.typeFilter = type])
  /\ ConsoleAlone

\* the filter bar is rendered on the blog tab (tags) and on the creatives
\* tab (categories and tags), and a row when it has an option to show
SetAdminCategoryFilter(cat) ==
  /\ admin.activeTab = "creatives" /\ admin.viewMode = "manage"
  /\ AvailableCategories # {}
  /\ cat \in {"all"} \cup AvailableCategories
  /\ Console([admin EXCEPT !.adminCategoryFilter = cat,
                           !.adminTagFilter = "all"])
  /\ ConsoleAlone

SetAdminTagFilter(tag) ==
  /\ admin.activeTab \in {"blog", "creatives"} /\ admin.viewMode = "manage"
  /\ AvailableTags # {}
  /\ tag \in {"all"} \cup AvailableTags
  /\ Console([admin EXCEPT !.adminTagFilter = tag])
  /\ ConsoleAlone

\* array.join(' | ') and a typed string: the segments between the ' | '
Join(array) == [joined |-> array]

\* str.split('|'): the pieces of one segment
Pieces(segment) ==
  CASE segment = "c|d" -> <<"c", "d">> [] OTHER -> <<segment>>

\* .filter(Boolean) on strings
NonEmpty(str) == str # ""

\* str.split(DELIMITER).map(item => item.trim()).filter(Boolean)
RECURSIVE SplitTrim(_)
SplitTrim(segments) ==
  IF segments = <<>> THEN <<>>
  ELSE LET pieces == Pieces(Head(segments))
       IN SelectSeq([i \in DOMAIN pieces |-> Trim(pieces[i])], NonEmpty)
          \o SplitTrim(Tail(segments))

\* the array fields of the forms that the model keeps
ArrayFields == {"tags"}

\* handleSubmit: processedData
AllFeatured(names) ==
  [i \in DOMAIN names |-> [name |-> names[i], featured |-> TRUE]]
ProcessedData(a, endpoint) ==
  LET typed == IF /\ a.activeTab = "home" /\ a.homeSubTab = "experience"
                  /\ ~("type" \in DOMAIN a.formData /\ a.formData.type # "")
               THEN With(a.formData, "type", "work")
               ELSE a.formData
  IN [f \in DOMAIN typed |->
        IF f \in ArrayFields THEN SplitTrim(typed[f].joined)
        ELSE IF f = "skills" /\ endpoint = "skills"
        THEN AllFeatured(SplitTrim(typed[f].joined))
        ELSE typed[f]]

\* handleEdit: editData
EditData(a, item) ==
  [f \in DOMAIN item |->
     IF f \in ArrayFields THEN Join(item[f])
     ELSE IF f = "skills" /\ a.homeSubTab = "skills"
     THEN Join([i \in DOMAIN item[f] |-> item[f][i].name])
     ELSE item[f]]

\* the Edit button of a row of the list
HandleEdit(i) ==
  /\ ManageView
  /\ i \in DOMAIN FilteredItems
  /\ Console([admin EXCEPT !.formData = EditData(admin, FilteredItems[i]),
                           !.editingId = FilteredItems[i]._id,
                           !.viewMode = "create",
                           !.message = NoMessage])
  /\ ConsoleAlone

\* handleChange: the field name of the form is set to value
HandleChange(name, value) ==
  /\ admin.viewMode = "create"
  /\ Console([admin EXCEPT !.formData = With(@, name, value)])
  /\ ConsoleAlone

\* handleSubmit up to the await: the form of the selected tab is submitted
HandleSubmit ==
  /\ admin.viewMode = "create"
  /\ Console([admin EXCEPT
               !.message = NoMessage,
               !.calls = Append(@, [kind |-> "submit",
                                    endpoint |-> EndpointOf(admin),
                                    id |-> admin.editingId,
                                    body |-> ProcessedData(admin,
                                                           EndpointOf(admin))])])
  /\ ConsoleAlone

\* the server answers the request calls[k] of handleSubmit; the rest of the
\* try (with the fetch of the tab the handler was called on), or the catch
SubmitAccepted(a, call) ==
  FetchEffect(Fetch([a EXCEPT
                       !.message = Success(IF call.id # BadId THEN "Updated"
                                           ELSE "Created"),
                       !.formData = NoBody, !.editingId = BadId,
                       !.viewMode = "manage", !.timer = TRUE],
                    call.endpoint))
SubmitRejectedClears(a, text) ==
  [a EXCEPT !.message = Failure(text), !.formData = NoBody]
SubmitRejected(a, text) == [a EXCEPT !.message = Failure(text)]

SubmitDone(k) ==
  /\ admin.calls[k].kind = "submit"
  /\ LET call == admin.calls[k]
         route == [op |-> IF call.id # BadId THEN "UPDATE" ELSE "CREATE",
                   coll |-> call.endpoint]
         rest == [admin EXCEPT !.calls = RemoveAt(@, k)]
     IN /\ \/ AuthReject(route, admin.token)
           \/ call.id # BadId /\ call.endpoint = "blog" /\
                UpdateBlog(admin.token, call.id, call.body)
           \/ call.id # BadId /\ call.endpoint # "blog" /\
                Update(call.endpoint, admin.token, call.id, call.body)
           \/ call.id = BadId /\ call.endpoint = "blog" /\
                CreateBlog(admin.token, call.body)
           \/ call.id = BadId /\ call.endpoint # "blog" /\
                Create(call.endpoint, admin.token, call.body)
        /\ ConsoleServed
        /\ LET a == IF last'.status \in {200, 201}
                    THEN SubmitAccepted(rest, call)
                    ELSE SubmitRejected(rest, last'.msg)
           IN Len(a.calls) <= MaxCalls /\ admin' = a

\* handleDelete up to the await (the confirm dialog is accepted)
HandleDelete(i) ==
  /\ ManageView
  /\ i \in DOMAIN FilteredItems
  /\ Console([admin EXCEPT
               !.message = NoMessage,
               !.calls = Append(@, [kind |-> "delete",
                                    endpoint |-> EndpointOf(admin),
                                    id |-> FilteredItems[i]._id])])
  /\ ConsoleAlone

\* the server answers the request calls[k] of handleDelete
DeleteDone(k) ==
  /\ admin.calls[k].kind = "delete"
  /\ LET call == admin.calls[k]
         rest == [admin EXCEPT !.calls = RemoveAt(@, k)]
     IN /\ \/ AuthReject([op |-> "DELETE", coll |-> call.endpoint],
                          admin.token)
           \/ Delete(call.endpoint, admin.token, call.id)
        /\ ConsoleServed
        /\ LET a == IF last'.status = 200
                    THEN Fetch([rest EXCEPT !.message = Success("Deleted"),
                                            !.timer = TRUE],
                               call.endpoint)
                    ELSE [rest EXCEPT !.message = Failure("Request failed")]
           IN Len(a.calls) <= MaxCalls /\ admin' = a

\* the two items at the indices (from 0) i and j of the list exchanged
Swap(items, i, j) ==
  [k \in DOMAIN items |->
     IF k = i + 1 THEN items[j + 1]
     ELSE IF k = j + 1 THEN items[i + 1]
     ELSE items[k]]

\* handleReorder up to the await: swapIndex, allItemsCopy, updates
SwapIndex(itemId, direction) ==
  IF direction = "up" THEN FindIndex(admin.items, itemId) - 1
  ELSE FindIndex(admin.items, itemId) + 1

Updates(items) ==
  [i \in DOMAIN items |-> [id |-> items[i]._id, order |-> i - 1]]

\* the up and down buttons of row i of the list (up is disabled on the first
\* row, down on the last)
HandleReorder(i, direction) ==
  /\ ManageView
  /\ admin.activeTab \in {"home", "creatives"}
  /\ i \in DOMAIN FilteredItems
  /\ IF direction = "up" THEN i # 1 ELSE i # Len(FilteredItems)
  /\ LET itemId == FilteredItems[i]._id
         swapIndex == SwapIndex(itemId, direction)
     IN /\ swapIndex >= 0 /\ swapIndex < Len(admin.items)
        /\ LET allItemsCopy == Swap(admin.items,
                                    FindIndex(admin.items, itemId), swapIndex)
           IN Console([admin EXCEPT
                         !.calls = Append(@, [kind |-> "reorder",
                                              endpoint |-> EndpointOf(admin),
                                              itemId |-> itemId,
                                              direction |-> direction,
                                              copy |-> allItemsCopy,
                                              body |-> [items |->
                                                Updates(allItemsCopy)]])])
  /\ ConsoleAlone

\* the server answers the request calls[k] of handleReorder
ReorderOptimistic(a, call, ok) == [a EXCEPT !.items = call.copy]
ReorderAwaited(a, call, ok) ==
  IF ok THEN [a EXCEPT !.items = call.copy] ELSE a

ReorderDone(k) ==
  /\ admin.calls[k].kind = "reorder"
  /\ LET call == admin.calls[k]
         rest == [admin EXCEPT !.calls = RemoveAt(@, k)]
     IN /\ \/ AuthReject([op |-> "REORDER", coll |-> call.endpoint],
                          admin.token)
           \/ Reorder(call.endpoint, admin.token, call.body)
        /\ ConsoleServed
        /\ admin' =
             [ReorderAwaited(rest, call, last'.status = 200) EXCEPT
                !.message = IF last'.status = 200 THEN Success("Order updated")
                            ELSE Failure(last'.msg),
                !.timer = IF last'.status = 200 THEN TRUE ELSE @]

\* setTimeout(() => setMessage(''), ...)
MessageTimeout ==
  /\ admin.timer
  /\ Console([admin EXCEPT !.message = NoMessage, !.timer = FALSE])
  /\ ConsoleAlone

\* ------------------------------------------------------ request bodies
SuppliedDates == {0}

BlogBase(slug) ==
  [title |-> "x", slug |-> slug, content |-> "x", excerpt |-> "x"]

BlogCreateBodies ==
  {BlogBase(s) : s \in {"a", "A", "all"}} \cup
  {With(BlogBase(s), "published", p) : s \in {"a", "all"}, p \in BOOLEAN} \cup
  {With(With(BlogBase("a"), "published", p), "publishedAt", d) :
     p \in BOOLEAN, d \in SuppliedDates} \cup
  {Without(BlogBase("a"), f) : f \in RequiredFields("blog")} \cup
  {With(BlogBase("a"), "title", " ")}

BlogUpdateBodies ==
  {NoBody, [published |-> TRUE], [published |-> FALSE], [slug |-> "A"]} \cup
  {[published |-> TRUE, publishedAt |-> d] : d \in SuppliedDates}

\* the blog bodies of the runs over all collections
BlogWriteBodies ==
  {BlogBase("a"), With(BlogBase("a"), "published", TRUE),
   Without(BlogBase("a"), "title"), [published |-> TRUE]}

\* body with the fields of more added or replaced
Merge(body, more) ==
  [f \in DOMAIN body \cup DOMAIN more |->
     IF f \in DOMAIN more THEN more[f] ELSE body[f]]

\* what a body can supply for published and publishedAt: nothing, a value,
\* null
StampBodies ==
  {Merge(p, d) :
     p \in {NoBody, [published |-> TRUE], [published |-> FALSE]},
     d \in {NoBody, [publishedAt |-> 0], [publishedAt |-> NoDate]}}

ValidBody(c) ==
  [f \in RequiredFields(c) |->
     IF c = "experience" /\ f = "type" THEN "work" ELSE "x"]

CreateBodies(c) ==
  {ValidBody(c)} \cup
  {Without(ValidBody(c), f) : f \in RequiredFields(c)} \cup
  {With(ValidBody(c), f, "bogus") : f \in EnumFields(c)} \cup
  {With(ValidBody(c), f, " x") : f \in TrimFields(c)}

\* the empty body, an enum field out of its enum, a required field emptied
UpdateBodies(c) ==
  {NoBody} \cup
  {[title |-> ""] : d \in {c} \cap {"photography"}} \cup
  {With(NoBody, f, "bogus") : f \in EnumFields(c)}

ReorderBodies ==
  {NoBody, [items |-> <<>>]} \cup
  {[items |-> <<[id |-> 1, order |-> 1]>>]}

Passwords == {"secret", "guess", Undef}
Files == {"image", "text", "none"}
SlugParams == {"a", "all", "b"}

\* the server has started over the documents store, a function from the
\* collections to their documents by _id; no client has done anything
Boot(store) ==
  /\ now = 0
  /\ configured \in BOOLEAN
  /\ issued = {}
  /\ nextId = 1 + Cardinality(UNION {DOMAIN store[c] : c \in Collections})
  /\ db = store
  /\ cloud = {}
  /\ supplied = {}
  /\ last = NoRequest
  /\ inflight = <<>>
  /\ hits = [login |-> 0, api |-> 0]
  /\ made = <<>>
  /\ page = NoPage
  /\ gallery = GalleryMounted
  /\ admin = AdminMounted

Empty == [c \in Collections |-> <<>>]

Init == Boot(Empty)

\* a store that earlier requests have left: the documents docs in
\* collection c, ordered as they were created
Seeded(c, docs) == [Empty EXCEPT ![c] = docs]

\* the document that a POST of body made at time 0, followed by a reorder
\* that gave it the place of its creation
Earlier(c, id, body) ==
  [f \in Fields(c) |->
     IF f = "_id" THEN id
     ELSE IF f = "createdAt" THEN 0
     ELSE IF f = "order" THEN id - 1
     ELSE IF f \in DOMAIN body THEN Cast(c, f, body[f])
     ELSE Default(c, f)]

\* experience documents of alternating types, created one after the other
ExperienceRows ==
  [i \in 1..MaxRows |->
     Earlier("experience", i,
             With(ValidBody("experience"), "type",
                  IF i % 2 = 1 THEN "work" ELSE "education"))]

\* skill categories created one after the other: skills that are featured
\* and skills that are not, a name that holds the delimiter
SkillLists ==
  << <<[name |-> "a", featured |-> TRUE], [name |-> "b", featured |-> FALSE]>>,
     <<[name |-> "c|d", featured |-> TRUE]>>,
     <<[name |-> "a", featured |-> TRUE]>> >>

SkillRows ==
  [i \in 1..MaxRows |->
     Earlier("skills", i,
             With(ValidBody("skills"), "skills",
                  SkillLists[((i - 1) % Len(SkillLists)) + 1]))]

\* photographs of alternating categories and tags, created one after the
\* other
PhotoRows ==
  [i \in 1..MaxRows |->
     Earlier("photography", i,
             IF i % 2 = 1
             THEN With(With(ValidBody("photography"), "category", "portrait"),
                       "tags", <<"bw">>)
             ELSE With(With(ValidBody("photography"), "category", "landscape"),
                       "tags", <<"sunset">>))]

BlogRoutes == {r \in ProtectedRoutes : r.coll = "blog"}

\* no page of the client changes
Away == UNCHANGED <<page, gallery, admin>>

\* the runs below hold no reorder request in flight, stay within the budgets
\* of the rate limiters and keep no record of the created bodies
Quiet == Away /\ UNCHANGED <<inflight, hits, made>>

\* the blog routes and the clock
Next ==
  \/ Receive /\ Quiet
  \/ Idle /\ Quiet /\ Tick
  \/ Idle /\ Quiet /\ \E password \in Passwords : Login(password)
  \/ Idle /\ Quiet /\ \E route \in BlogRoutes, tok \in Tokens :
       AuthReject(route, tok)
  \/ Idle /\ Quiet /\ GetBlog
  \/ Idle /\ Quiet /\ \E tok \in Tokens : GetBlogAll(tok)
  \/ Idle /\ Quiet /\ \E slug \in SlugParams : GetBlogSlug(slug)
  \/ Idle /\ Quiet /\ \E tok \in Tokens, body \in BlogCreateBodies : CreateBlog(tok, body)
  \/ Idle /\ Quiet /\ \E tok \in Tokens, id \in IdParams, body \in BlogUpdateBodies :
       UpdateBlog(tok, id, body)
  \/ Idle /\ Quiet /\ \E tok \in Tokens, id \in IdParams : Delete("blog", tok, id)

Spec == Init /\ [][Next]_vars

\* the write routes of the eight collections and the upload, at one instant
NextCrud ==
  \/ Receive /\ Quiet
  \/ Idle /\ Quiet /\ \E password \in Passwords : Login(password)
  \/ Idle /\ Quiet /\ \E route \in ProtectedRoutes, tok \in Tokens :
       AuthReject(route, tok)
  \/ Idle /\ Quiet /\ \E tok \in Tokens, body \in BlogWriteBodies : CreateBlog(tok, body)
  \/ Idle /\ Quiet /\ \E tok \in Tokens, id \in IdParams, body \in BlogWriteBodies :
       UpdateBlog(tok, id, body)
  \/ Idle /\ Quiet /\ \E c \in Collections, tok \in Tokens :
       \E body \in CreateBodies(c) : Create(c, tok, body)
  \/ Idle /\ Quiet /\ \E c \in Collections, tok \in Tokens, id \in Ids :
       \E body \in UpdateBodies(c) : Update(c, tok, id, body)
  \/ Idle /\ Quiet /\ \E c \in Collections, tok \in Tokens, id \in IdParams : Delete(c, tok, id)
  \/ Idle /\ Quiet /\ \E c \in Collections, tok \in Tokens, body \in ReorderBodies :
       Reorder(c, tok, body)
  \/ Idle /\ Quiet /\ \E tok \in Tokens, body \in ReorderBodies :
       ReorderBlog(tok, body)
  \/ Idle /\ Quiet /\ \E tok \in Tokens, file \in Files, upstream \in {"ok", "error"} :
       Upload(tok, file, "portfolio/general", upstream)

SpecCrud == Init /\ [][NextCrud]_vars

\* the reorder requests of the runs with concurrent requests: two batches
\* over the same ids, a batch with an item whose id is not an ObjectId
RaceBodies ==
  {NoBody, [items |-> <<>>],
   [items |-> <<[id |-> 1, order |-> 1], [id |-> 2, order |-> 1]>>],
   [items |-> <<[id |-> 1, order |-> 2], [id |-> 2, order |-> 2]>>],
   [items |-> <<[id |-> BadId, order |-> 3], [id |-> 1, order |-> 3]>>]}

RaceCollections == {"experience"}

\* reorder requests running concurrently with each other and with the
\* create, update and delete requests of the collection
NextReorder ==
  \/ Receive /\ Away /\ UNCHANGED <<inflight, hits, made>>
  \/ Idle /\ Away /\ UNCHANGED <<inflight, hits, made>> /\ Login("secret")
  \/ Idle /\ Away /\ UNCHANGED <<inflight, hits, made>> /\
       \E c \in RaceCollections, tok \in Issued : Create(c, tok, ValidBody(c))
  \/ Idle /\ Away /\ UNCHANGED <<inflight, hits, made>> /\
       \E c \in RaceCollections, tok \in Issued, id \in Ids :
         Update(c, tok, id, [order |-> 4])
  \/ Idle /\ Away /\ UNCHANGED <<inflight, hits, made>> /\
       \E c \in RaceCollections, tok \in Issued, id \in Ids : Delete(c, tok, id)
  \/ Idle /\ Away /\ UNCHANGED <<hits, made>> /\
       \E c \in RaceCollections, tok \in Issued, body \in RaceBodies :
         ReorderStart(c, tok, body)
  \/ Away /\ UNCHANGED <<hits, made>> /\
       \E k \in DOMAIN inflight : \E i \in inflight[k].todo : ReorderStep(k, i)

SpecReorder == Init /\ [][NextReorder]_vars

\* the reorder requests a client builds from the list s it was sent: every
\* document its own order, the orders in reverse, and the position in the list
IdentityItems(s) == [i \in DOMAIN s |-> [id |-> s[i]._id, order |-> s[i].order]]
ReversedItems(s) ==
  [i \in DOMAIN s |-> [id |-> s[i]._id, order |-> s[Len(s) + 1 - i].order]]
PositionItems(s) == [i \in DOMAIN s |-> [id |-> s[i]._id, order |-> i - 1]]

ListReorderBodies(c) ==
  UNION {{[items |-> IdentityItems(s)], [items |-> ReversedItems(s)],
          [items |-> PositionItems(s)]} :
           s \in ListOutputs(c, DOMAIN db[c])}

ListCreateBodies(c) ==
  CASE c = "experience" ->
         {With(With(ValidBody(c), "type", t), "startDate", d) :
            t \in {"work", "education"}, d \in {"2019", "2021"}}
    [] c = "photography" -> {ValidBody(c), With(ValidBody(c), "title", " x")}
    [] c = "courses" -> {ValidBody(c), With(ValidBody(c), "order", 1)}
    [] c = "blog" ->
         {BlogBase("a"), With(BlogBase("A"), "published", TRUE)}
    [] OTHER -> {ValidBody(c)}

TypeParams(c) == IF c = "experience" THEN {"", "work", "volunteer"} ELSE {""}

\* the tokens signed at the current time
Fresh == {tok \in Issued : tok.iat = now}

\* made after a request: a created document is recorded with its body, a
\* document named by a reorder is marked, and a document named by an update
\* or a delete is forgotten
MadeAfter ==
  IF last'.status \notin {200, 201} THEN made
  ELSE IF last'.op = "CREATE"
  THEN [j \in DOMAIN made \cup {nextId} |->
          IF j = nextId THEN [body |-> last'.body, reordered |-> FALSE]
          ELSE made[j]]
  ELSE IF last'.op \in {"UPDATE", "DELETE"}
  THEN [j \in DOMAIN made \ {last'.id} |-> made[j]]
  ELSE IF last'.op = "REORDER"
  THEN [j \in DOMAIN made |->
          IF \E i \in DOMAIN last'.body.items : last'.body.items[i].id = j
          THEN [made[j] EXCEPT !.reordered = TRUE]
          ELSE made[j]]
  ELSE made

\* no collection other than c holds a document
OnlyIn(c) == \A d \in Collections \ {c} : db[d] = <<>>

\* the public lists and the requests that change their order, one request
\* at a time; the collections share nothing, and the documents of a run are
\* created in one of them
NextList ==
  \/ Receive /\ Quiet
  \/ Idle /\ Quiet /\ Tick
  \/ Idle /\ Quiet /\ Login("secret")
  \/ Idle /\ Quiet /\ \E c \in Collections, tok \in Fresh :
       \E body \in ListCreateBodies(c) : OnlyIn(c) /\ Create(c, tok, body)
  \/ Idle /\ Quiet /\ \E c \in Collections, tok \in Fresh :
       \E id \in DOMAIN db[c] : Update(c, tok, id, [order |-> 1])
  \/ Idle /\ Quiet /\ \E c \in Collections \ {"blog"}, tok \in Fresh :
       \E id \in DOMAIN db[c] : Delete(c, tok, id)
  \/ Idle /\ Quiet /\ \E c \in Collections, tok \in Fresh :
       \E body \in ListReorderBodies(c) : Reorder(c, tok, body)
  \/ Idle /\ Quiet /\ \E c \in Collections :
       \E type \in TypeParams(c) : List(c, type)

SpecList == Init /\ [][NextList]_vars

\* create, then read: the requests of NextList at one instant, with the blog
\* routes, and the record of the created bodies
NextRound ==
  \/ Receive /\ Quiet
  \/ Idle /\ Quiet /\ Login("secret")
  \/ Idle /\ Away /\ UNCHANGED <<inflight, hits>> /\
       (\E tok \in Fresh, body \in ListCreateBodies("blog") :
          OnlyIn("blog") /\ CreateBlog(tok, body)) /\ made' = MadeAfter
  \/ Idle /\ Away /\ UNCHANGED <<inflight, hits>> /\
       (\E c \in Collections, tok \in Fresh :
          \E body \in ListCreateBodies(c) : OnlyIn(c) /\ Create(c, tok, body)) /\
       made' = MadeAfter
  \/ Idle /\ Away /\ UNCHANGED <<inflight, hits>> /\
       (\E c \in Collections, tok \in Fresh :
          \E id \in DOMAIN db[c] : Update(c, tok, id, [order |-> 1])) /\
       made' = MadeAfter
  \/ Idle /\ Away /\ UNCHANGED <<inflight, hits>> /\
       (\E c \in Collections, tok \in Fresh :
          \E id \in DOMAIN db[c] : Delete(c, tok, id)) /\ made' = MadeAfter
  \/ Idle /\ Away /\ UNCHANGED <<inflight, hits>> /\
       (\E c \in Collections, tok \in Fresh :
          \E body \in ListReorderBodies(c) : Reorder(c, tok, body)) /\
       made' = MadeAfter
  \/ Idle /\ Quiet /\ \E c \in Collections :
       \E type \in TypeParams(c) : List(c, type)
  \/ Idle /\ Quiet /\ GetBlog
  \/ Idle /\ Quiet /\ \E slug \in SlugParams : GetBlogSlug(slug)

SpecRound == Init /\ [][NextRound]_vars

\* the requests of one client through the rate limiters
LimitedRequests ==
  {[op |-> "LOGIN", coll |-> "admin", tok |-> NoToken,
    body |-> [password |-> pw]] : pw \in {"secret", "guess"}} \cup
  {[op |-> "CREATE", coll |-> "courses", tok |-> tok,
    body |-> ValidBody("courses")] : tok \in Issued} \cup
  {[op |-> "LIST", coll |-> "courses", tok |-> NoToken, body |-> NoBody],
   [op |-> "HEALTH", coll |-> "health", tok |-> NoToken, body |-> NoBody]}

NextLimit ==
  \/ Receive /\ Quiet
  \/ Idle /\ Away /\ UNCHANGED <<inflight, made>> /\ AdmitLogin /\
       \E password \in {"secret", "guess"} : Login(password)
  \/ Idle /\ Away /\ UNCHANGED <<inflight, made>> /\ AdmitApi /\
       \E tok \in Issued : Create("courses", tok, ValidBody("courses"))
  \/ Idle /\ Away /\ UNCHANGED <<inflight, made>> /\ AdmitApi /\ List("courses", "")
  \/ Idle /\ Away /\ UNCHANGED <<inflight, made>> /\ AdmitApi /\ Health
  \/ Idle /\ Away /\ UNCHANGED <<inflight, made>> /\
       \E r \in LimitedRequests : TooMany(r.op, r.coll, r.tok, r.body)
  \/ Idle /\ Away /\ UNCHANGED <<inflight, made>> /\
       \E l \in {"login", "api"} : WindowReset(l)

SpecLimit == Init /\ [][NextLimit]_vars

\* authenticated create and update requests on the blog, with every
\* combination of published and publishedAt in their bodies
NextStamp ==
  \/ Receive /\ Quiet
  \/ Idle /\ Quiet /\ Login("secret")
  \/ Idle /\ Quiet /\ \E tok \in Fresh, slug \in {"a", "b"}, body \in StampBodies :
       CreateBlog(tok, Merge(BlogBase(slug), body))
  \/ Idle /\ Quiet /\ \E tok \in Fresh, body \in StampBodies :
       \E id \in DOMAIN db["blog"] : UpdateBlog(tok, id, body)
  \/ Idle /\ Quiet /\ GetBlog

SpecStamp == Init /\ [][NextStamp]_vars

\* the blog post page shows one post after the other
NextPost == \E m \in Markdowns : ShowPost(m)

SpecPost == Init /\ [][NextPost]_vars

\* the gallery page: the lists arrive, then the visitor uses the filters
NextGallery ==
  \/ \E featured \in [Sections -> SUBSET {1, 2}] :
       FetchAllData([s \in Sections |->
                       {item \in Catalogue(s) : item.id \in featured[s]}])
  \/ FetchAllDataFails
  \/ \E s \in Sections, c \in {"all", "landscape", "portrait", "vlog", "design"} :
       SelectCategory(s, c)
  \/ \E s \in Sections, t \in {"all", "sunset", "bw", "travel", "food", "art"} :
       SelectTag(s, t)
  \/ \E s \in Sections : CategoryEffect(s)

SpecGallery == Init /\ [][NextGallery]_vars

\* the admin console: tabs, sub-tabs, the form of the courses, and the
\* responses of the server in any order
NextTabs ==
  \/ Receive /\ Away /\ UNCHANGED <<inflight, hits, made>>
  \/ Idle /\ HandleLogin("secret")
  \/ \E newTab \in {"home", "blog", "creatives"} : HandleTabChange(newTab)
  \/ \E newSubTab \in {"experience", "courses"} :
       HandleHomeSubTabChange(newSubTab)
  \/ \E newSubTab \in {"photo", "video"} :
       HandleCreativesSubTabChange(newSubTab)
  \/ \E mode \in {"create", "manage"} : SetViewMode(mode)
  \/ EndpointOf(admin) = "courses" /\ HandleChange("name", "x")
  \/ EndpointOf(admin) = "courses" /\ HandleSubmit
  \/ Idle /\ \E k \in DOMAIN admin.calls : SubmitDone(k)
  \/ Idle /\ \E k \in DOMAIN admin.calls : FetchDone(k)

SpecTabs == Init /\ [][NextTabs]_vars

\* the admin console on the experience list: the type filter and the reorder
\* buttons, while the token of the console runs out
NextOrder ==
  \/ Receive /\ Away /\ UNCHANGED <<inflight, hits, made>>
  \/ Idle /\ Quiet /\ Tick
  \/ Idle /\ HandleLogin("secret")
  \/ \E type \in {"work", "education"} : SetTypeFilter(type)
  \/ Idle /\ \E k \in DOMAIN admin.calls : FetchDone(k)
  \/ /\ admin.calls = <<>>
     /\ \E i \in 1..MaxRows, direction \in {"up", "down"} :
          HandleReorder(i, direction)
  \/ Idle /\ \E k \in DOMAIN admin.calls : ReorderDone(k)
  \/ MessageTimeout

\* the admin console on the skills list: the edit button, the form and its
\* submission, while the token of the console runs out
NextForm ==
  \/ Receive /\ Away /\ UNCHANGED <<inflight, hits, made>>
  \/ Idle /\ Quiet /\ Tick
  \/ Idle /\ HandleLogin("secret")
  \/ admin.calls = <<>> /\ HandleHomeSubTabChange("skills")
  \/ Idle /\ \E k \in DOMAIN admin.calls : FetchDone(k)
  \/ \E mode \in {"create", "manage"} :
       EndpointOf(admin) = "skills" /\ admin.calls = <<>> /\ SetViewMode(mode)
  \/ \E i \in 1..MaxRows : EndpointOf(admin) = "skills" /\ HandleEdit(i)
  \/ \E value \in {"x", ""} :
       EndpointOf(admin) = "skills" /\ HandleChange("category", value)
  \/ EndpointOf(admin) = "skills" /\ admin.calls = <<>> /\ HandleSubmit
  \/ Idle /\ \E k \in DOMAIN admin.calls : SubmitDone(k)

InitForm ==
  /\ Boot(Seeded("skills", SkillRows))
  /\ configured = TRUE

SpecForm == InitForm /\ [][NextForm]_vars

\* the admin console on the photography list: the category and tag buttons
\* of the filter bar and the delete button
NextFilter ==
  \/ Receive /\ Away /\ UNCHANGED <<inflight, hits, made>>
  \/ Idle /\ HandleLogin("secret")
  \/ \E newTab \in {"home", "creatives"} :
       admin.calls = <<>> /\ HandleTabChange(newTab)
  \/ Idle /\ \E k \in DOMAIN admin.calls : FetchDone(k)
  \/ \E cat \in {"all", "portrait", "landscape"} : SetAdminCategoryFilter(cat)
  \/ \E tag \in {"all", "bw", "sunset"} : SetAdminTagFilter(tag)
  \/ \E i \in 1..MaxRows :
       EndpointOf(admin) = "photography" /\ admin.calls = <<>> /\
       HandleDelete(i)
  \/ Idle /\ \E k \in DOMAIN admin.calls : DeleteDone(k)

InitFilter ==
  /\ Boot(Seeded("photography", PhotoRows))
  /\ configured = TRUE

SpecFilter == InitFilter /\ [][NextFilter]_vars

InitOrder ==
  /\ Boot(Seeded("experience", ExperienceRows))
  /\ configured = TRUE

SpecOrder == InitOrder /\ [][NextOrder]_vars

\* ================================================================ claims
\* a step that answers a request, and the vocabulary of the claims
Answers == Idle /\ last' # NoRequest
WriteOps == {"CREATE", "UPDATE", "DELETE", "REORDER", "UPLOAD"}
ServerSigned(tok) == tok.key = "server"
Within24h(tok) == now < tok.iat + TokenTtl
Stored == <<db, cloud>>

\* the request r, made in the current state, is one the API documents as
\* valid: the body satisfies the schema and the addressed document exists
SchemaOk(c, doc) ==
  /\ \A f \in RequiredFields(c) : doc[f] \notin {Undef, ""}
  /\ \A f \in EnumFields(c) : doc[f] = Undef \/ doc[f] \in EnumValues(c, f)

SlugFree(c, id, doc) ==
  c = "blog" =>
    \A j \in DOMAIN db["blog"] \ {id} : db["blog"][j].slug # doc.slug

\* the request is a PUT /api/<collection>/reorder
ReorderRequest(r) ==
  \/ r.op = "REORDER"
  \/ r.op = "UPDATE" /\ r.coll = "blog" /\ r.id = BadId

ValidRequest(r) ==
  CASE r.op = "CREATE" ->
         LET doc == NewDoc(r.coll, nextId, r.body)
         IN SchemaOk(r.coll, doc) /\ SlugFree(r.coll, nextId, doc)
    [] r.op = "UPDATE" /\ ~ReorderRequest(r) ->
         /\ r.id \in DOMAIN db[r.coll]
         /\ LET doc == ApplyUpdate(r.coll, db[r.coll][r.id], r.body)
            IN SchemaOk(r.coll, doc) /\ SlugFree(r.coll, r.id, doc)
    [] r.op = "DELETE" -> r.id \in DOMAIN db[r.coll]
    [] ReorderRequest(r) -> "items" \in DOMAIN r.body
    [] r.op = "UPLOAD" ->
         r.body.file = "image" /\ r.body.upstream = "ok"
    [] OTHER -> FALSE

\* C1: a write request (create, update, delete, reorder on any collection,
\* upload) without a token, or with a token that the server's key did not
\* sign, is answered 401 and leaves every collection (and the object
\* storage) unchanged; with a token the server signed and a valid body the
\* request succeeds.
C1_WritesNeedToken ==
  [][(Answers /\ last'.op \in WriteOps) =>
       IF ~ServerSigned(last'.tok)
       THEN last'.status = 401 /\ Stored' = Stored
       ELSE ValidRequest(last') =>
              last'.status = (IF last'.op = "CREATE" THEN 201 ELSE 200)]_vars

\* C2: LOGIN sends a token only for the password that matches the stored hash,
\* and answers 401 without a token for another password; a token that LOGIN
\* issued passes the auth middleware at every time less than 24h after its
\* issue and is answered 401 from 24h on.
C2_LoginAndExpiry ==
  /\ last.op = "LOGIN" /\ last.out # <<>> =>
       /\ last.body.password = "secret"
       /\ last.status = 200
       /\ last.out[1].iat = now /\ now \in issued
  /\ last.op = "LOGIN" /\ configured /\ last.body.password = "guess" =>
       last.status = 401 /\ last.out = <<>>
  /\ last.op = "LOGIN" /\ configured /\ last.body.password = "secret" =>
       last.status = 200 /\ last.out # <<>>
  /\ \A t \in issued : t <= now
  /\ last.op \in WriteOps \cup {"LIST_ALL"} /\ ServerSigned(last.tok) =>
       /\ last.tok.iat \in issued
       /\ last.status = 401 <=> ~Within24h(last.tok)

C2_Witness ==
  /\ last.op = "LIST_ALL"
  /\ ServerSigned(last.tok)
  /\ now = last.tok.iat + TokenTtl
  /\ last.status = 401

\* C3: no request without a valid token is answered with an unpublished
\* BlogPost: GET /api/blog lists published posts only, GET /api/blog/:slug
\* answers 404 for the slug of an unpublished post, and GET /api/blog/all
\* answers 401.
Unauthenticated(tok) == ~(ServerSigned(tok) /\ Within24h(tok))

C3_UnpublishedStaysPrivate ==
  /\ last.coll = "blog" /\ Unauthenticated(last.tok) =>
       \A i \in DOMAIN last.out : last.out[i].published
  /\ last.op = "LIST" =>
       {last.out[i]._id : i \in DOMAIN last.out} =
         {j \in DOMAIN db["blog"] : db["blog"][j].published}
  /\ (/\ last.op = "GET_ONE"
      /\ \E j \in DOMAIN db["blog"] :
           db["blog"][j].slug = last.slug /\ ~db["blog"][j].published) =>
       last.status = 404 /\ last.out = <<>>
  /\ last.op = "LIST_ALL" /\ Unauthenticated(last.tok) =>
       last.status = 401 /\ last.out = <<>>

C3_Witness ==
  /\ last.op = "GET_ONE"
  /\ last.status = 404
  /\ \E j \in DOMAIN db["blog"] :
       db["blog"][j].slug = last.slug /\ ~db["blog"][j].published

\* C4: for every slug s, an unauthenticated GET /api/blog/s returns the
\* published post of slug s when there is one, and 404 otherwise.
C4_GetOneBySlug ==
  last.op \in {"GET_ONE", "LIST_ALL"} /\ last.tok = NoToken =>
    LET hit == {j \in DOMAIN db["blog"] :
                  db["blog"][j].slug = last.slug /\ db["blog"][j].published}
    IN IF hit = {}
       THEN last.status = 404
       ELSE last.status = 200 /\ \E j \in hit : last.out = <<db["blog"][j]>>

\* C5: an UPDATE of a BlogPost that supplies no publishedAt sets publishedAt
\* to the current time when it changes published from false to true, and
\* leaves publishedAt as it was when the post was already published.
C5_PublishStamps ==
  [][(/\ Answers
      /\ last'.op = "UPDATE" /\ last'.coll = "blog" /\ last'.status = 200
      /\ "publishedAt" \notin DOMAIN last'.body) =>
       LET was == db["blog"][last'.id]
           post == db'["blog"][last'.id]
       IN /\ ~was.published /\ post.published => post.publishedAt = now
          /\ was.published => post.publishedAt = was.publishedAt]_vars

C5_Witness ==
  /\ last.op = "UPDATE" /\ last.coll = "blog" /\ last.status = 200
  /\ last.body = [published |-> TRUE]
  /\ db["blog"][last.id].publishedAt = now
  /\ db["blog"][last.id].createdAt < now

\* C6: while no request body supplies publishedAt for a post, the server
\* assigns its publishedAt exactly once: a published post has one, and once
\* assigned it is never assigned again, also when the post is unpublished
\* and published again.
C6_StampedOnce ==
  /\ [](\A i \in DOMAIN db["blog"] \ supplied :
          db["blog"][i].published => db["blog"][i].publishedAt # NoDate)
  /\ [][\A i \in (DOMAIN db["blog"] \cap DOMAIN db'["blog"]) \ supplied' :
          db["blog"][i].publishedAt # NoDate =>
            db'["blog"][i].publishedAt = db["blog"][i].publishedAt]_vars

\* C7: no two BlogPosts have the same slug, compared in lower case; a CREATE
\* or an UPDATE that would give a post the slug of another post is answered
\* 400 and changes nothing.
C7_UniqueSlug ==
  /\ [](\A i, j \in DOMAIN db["blog"] :
          i # j => Lower(db["blog"][i].slug) # Lower(db["blog"][j].slug))
  /\ [][(/\ Answers
         /\ last'.coll = "blog" /\ last'.status # 401
         /\ \/ last'.op = "CREATE"
            \/ last'.op = "UPDATE" /\ last'.id \in DOMAIN db["blog"]
         /\ "slug" \in DOMAIN last'.body
         /\ \E j \in DOMAIN db["blog"] :
              /\ last'.op = "UPDATE" => j # last'.id
              /\ Lower(db["blog"][j].slug) = Lower(last'.body.slug)) =>
          last'.status = 400 /\ db' = db]_vars

C7_Witness ==
  /\ last.op = "UPDATE" /\ last.coll = "blog"
  /\ last.status = 400
  /\ "slug" \in DOMAIN last.body
  /\ \E j \in DOMAIN db["blog"] :
       j # last.id /\ db["blog"][j].slug = Lower(last.body.slug)
  /\ last.id \in DOMAIN db["blog"]

\* C8: in every collection, blog included, an authenticated UPDATE of an id
\* that is not in the collection is answered 404, whatever the body, and
\* changes nothing.
C8_UpdateMissingIs404 ==
  [][(/\ Answers
      /\ last'.op = "UPDATE" /\ last'.status # 401
      /\ last'.id # BadId
      /\ last'.id \notin DOMAIN db[last'.coll]) =>
       last'.status = 404 /\ db' = db]_vars

\* C9: in every collection an authenticated DELETE of an id that is not in
\* the collection is answered 404 and changes nothing; a DELETE of an id
\* that is in it removes that document and no other, in any collection.
C9_DeleteExactlyOne ==
  [][(/\ Answers
      /\ last'.op = "DELETE" /\ last'.status # 401
      /\ last'.id # BadId) =>
       LET c == last'.coll
           id == last'.id
       IN IF id \notin DOMAIN db[c]
          THEN last'.status = 404 /\ db' = db
          ELSE /\ last'.status = 200
               /\ DOMAIN db'[c] = DOMAIN db[c] \ {id}
               /\ \A j \in DOMAIN db'[c] : db'[c][j] = db[c][j]
               /\ \A d \in Collections \ {c} : db'[d] = db[d]]_vars

C9_Witness ==
  /\ last.op = "DELETE"
  /\ last.status = 200
  /\ \E c \in Collections : db[c] # <<>>

\* C10: every stored document satisfies its schema: the required fields are
\* present and Photography.category and Experience.type are within their
\* enums.
C10_StoredDocumentsValid ==
  \A c \in Collections : \A i \in DOMAIN db[c] : SchemaOk(c, db[c][i])

\* a step of a reorder request: the request is taken, one of its updates
\* completes, or it is answered
ReorderActs == inflight' # inflight \/ (Answers /\ last'.op = "REORDER")

\* the items of the reorder requests in flight that name document j of c
NamedBy(c, j) ==
  {it \in UNION {{inflight[k].body.items[i] : i \in inflight[k].todo} :
                   k \in {n \in DOMAIN inflight : inflight[n].coll = c}} :
     it.id = j}

IdsOf(s) == [i \in DOMAIN s |-> s[i]._id]
Reverse(s) == [i \in DOMAIN s |-> s[Len(s) + 1 - i]]
DistinctOrders(c) ==
  \A i, j \in DOMAIN db[c] : i # j => db[c][i].order # db[c][j].order

Completes(k, i) ==
  /\ k \in DOMAIN inflight
  /\ i \in inflight[k].todo
  /\ inflight' =
       IF inflight[k].todo = {i} THEN RemoveAt(inflight, k)
       ELSE [inflight EXCEPT
               ![k].todo = @ \ {i},
               ![k].failed = @ \/ inflight[k].body.items[i].id = BadId]

\* this step applies a write of order to document j of collection c: an
\* update of a reorder request in flight, or an UPDATE of the document
WritesOrder(c, j) ==
  \/ \E k \in DOMAIN inflight : \E i \in inflight[k].todo :
       /\ Completes(k, i)
       /\ inflight[k].coll = c
       /\ inflight[k].body.items[i] = [id |-> j, order |-> db'[c][j].order]
  \/ /\ Answers /\ last'.op = "UPDATE" /\ last'.status = 200
     /\ last'.coll = c /\ last'.id = j
     /\ "order" \in DOMAIN last'.body /\ last'.body.order = db'[c][j].order

\* an order, once assigned, stays until another write to the same document
OrderKept ==
  \A c \in Collections : \A j \in DOMAIN db[c] \cap DOMAIN db'[c] :
    db'[c][j].order # db[c][j].order => WritesOrder(c, j)

\* C13: when the update of one item of a REORDER batch fails, the request is
\* answered with an error (never acknowledged), the answer undoes nothing,
\* and the orders that the other items of the batch assigned stay as
\* assigned.
C13_FailedReorderKeepsWrites ==
  [][/\ (Answers /\ last'.op = "REORDER" /\ "items" \in DOMAIN last'.body) =>
          /\ (\E i \in DOMAIN last'.body.items :
                last'.body.items[i].id = BadId) => last'.status = 400
          /\ last'.status = 400 => db' = db
     /\ \A k \in DOMAIN inflight : \A i \in inflight[k].todo :
          (Completes(k, i) /\ inflight[k].body.items[i].id = BadId) => db' = db
     /\ OrderKept]_vars

C13_Witness ==
  /\ last.op = "REORDER" /\ last.status = 400
  /\ "items" \in DOMAIN last.body
  /\ \E i \in DOMAIN last.body.items :
       /\ last.body.items[i].id \in DOMAIN db[last.coll]
       /\ db[last.coll][last.body.items[i].id].order = last.body.items[i].order
       /\ last.body.items[i].order # Default(last.coll, "order")

\* C14: with REORDER requests over the same ids in flight together, and
\* UPDATE requests of those ids between their writes, every write sets the
\* order of its document and of no other, and a document keeps the order of
\* the last write applied to it: the writes interleave in any order.
C14_LastWritePerDocument ==
  [][/\ \A k \in DOMAIN inflight : \A i \in inflight[k].todo :
          LET c == inflight[k].coll
              it == inflight[k].body.items[i]
          IN Completes(k, i) =>
               /\ it.id \in DOMAIN db[c] => db'[c][it.id].order = it.order
               /\ \A j \in DOMAIN db[c] \ {it.id} : db'[c][j] = db[c][j]
     /\ (/\ Answers /\ last'.op = "UPDATE" /\ last'.status = 200
         /\ "order" \in DOMAIN last'.body) =>
          db'[last'.coll][last'.id].order = last'.body.order
     /\ OrderKept]_vars

\* both batches have completed and the collection holds an order of each
C14_Witness ==
  /\ inflight = <<>>
  /\ last.op = "REORDER" /\ last.status = 200
  /\ {1, 2} \subseteq DOMAIN db["experience"]
  /\ db["experience"][1].order = 1
  /\ db["experience"][2].order = 2

\* C15: in each of the eight collections, blog included, an authenticated
\* PUT /api/<collection>/reorder with a body {items} is acknowledged and sets
\* the order of every document it names.
C15_ReorderEveryCollection ==
  [][(/\ Answers /\ ReorderRequest(last')
      /\ last'.status # 401
      /\ "items" \in DOMAIN last'.body) =>
       /\ last'.status = 200
       /\ \A i \in DOMAIN last'.body.items :
            LET it == last'.body.items[i]
            IN it.id \in DOMAIN db[last'.coll] =>
                 db'[last'.coll][it.id].order = it.order]_vars

\* C16: the public LIST of a collection other than blog returns every stored
\* document exactly once (with a type query on experience: the documents of
\* that type and no other), as stored, in non-decreasing order; documents of
\* equal order come by descending startDate (experience) and by descending
\* createdAt (projects).
C16_ListSortedComplete ==
  (last.op = "LIST" /\ last.coll # "blog") =>
    LET c == last.coll
        out == last.out
        wanted == IF c = "experience" /\ "type" \in DOMAIN last.body
                  THEN {j \in DOMAIN db[c] : db[c][j].type = last.body.type}
                  ELSE DOMAIN db[c]
    IN /\ last.status = 200
       /\ Len(out) = Cardinality(wanted)
       /\ {out[i]._id : i \in DOMAIN out} = wanted
       /\ \A i \in DOMAIN out : out[i] = db[c][out[i]._id]
       /\ \A i, j \in DOMAIN out :
            i < j =>
              /\ out[i].order <= out[j].order
              /\ (c = "experience" /\ out[i].order = out[j].order) =>
                   StrRank(out[i].startDate) >= StrRank(out[j].startDate)
              /\ (c = "projects" /\ out[i].order = out[j].order) =>
                   out[i].createdAt >= out[j].createdAt

\* a list by type of two entries of equal order and different startDate
C16_Witness ==
  /\ last.op = "LIST" /\ last.coll = "experience"
  /\ last.body = [type |-> "work"]
  /\ Len(last.out) = 2
  /\ last.out[1].order = last.out[2].order
  /\ last.out[1].startDate = "2021" /\ last.out[2].startDate = "2019"

\* the last request is a public list of collection c that does not filter
\* the entity of body e out by its type
ListsFor(c, e) ==
  /\ last.op = "LIST" /\ last.coll = c
  /\ "type" \in DOMAIN last.body => last.body.type = e.type

Limiters(op) == IF op = "LOGIN" THEN {"login", "api"} ELSE {"api"}

\* C18: once the client has made the maximum number of requests of a limiter
\* in the current window, every further request that limiter counts is
\* answered 429 and no handler runs (the documents, the images and the issued
\* tokens stay as they are); every request that reaches its handler has been
\* counted, a count goes down only when its window is reset, requests within
\* the maxima are not answered 429, and the maximum for login attempts is
\* lower than the general one.
C18_RateLimited ==
  [][/\ Answers =>
          IF \E l \in Limiters(last'.op) : hits[l] >= Max(l)
          THEN /\ last'.status = 429
               /\ db' = db /\ cloud' = cloud /\ issued' = issued
               /\ nextId' = nextId
          ELSE last'.status # 429
     /\ \A l \in {"login", "api"} :
          /\ hits'[l] < hits[l] => hits'[l] = 0 /\ last' = last
          /\ (Answers /\ l \in Limiters(last'.op) /\ last'.status # 429) =>
               hits'[l] = hits[l] + 1
     /\ LoginMax < ApiMax]_vars

\* a CREATE with a valid token is refused after the hundredth request of the
\* window, and a login is accepted again after the window of the login
\* limiter was reset
C18_Witness ==
  /\ last.op = "CREATE" /\ last.status = 429
  /\ Verify(last.tok)
  /\ hits.api > ApiMax
  /\ hits.login < LoginMax

\* C19: GET /api/health is answered 200 {status: 'OK'} in every state of the
\* server, whatever requests came before it.
C19_HealthAlwaysOk ==
  last.op = "HEALTH" => last.status = 200 /\ last.msg = "OK"

\* C20: an authenticated UPLOAD of a file that is not an image is answered
\* 400 with a message, and nothing is sent to the object storage.
C20_NonImageIs400 ==
  [][(/\ Answers /\ last'.op = "UPLOAD"
      /\ last'.status # 401
      /\ last'.body.file = "text") =>
       /\ last'.status = 400
       /\ last'.msg # ""
       /\ cloud' = cloud]_vars

\* C21: a write request whose token is missing, malformed, expired or signed
\* with another key is answered 401 with one and the same body: the message
\* a refused request receives is the message every other refused token
\* would receive.
C21_RefusalsIndistinguishable ==
  (last.op \in WriteOps /\ last.status = 401) =>
    \A tok \in Tokens : ~Authorized(tok) => RejectMessage(tok) = last.msg

\* the blocks of markdown m from line i on, read from left to right: a line
\* with a delimiter and a keyword, up to the next line that is a delimiter
BlockEnd(m, i) ==
  IF \E j \in i + 1..Len(m) : m[j].kind = "close"
  THEN CHOOSE j \in i + 1..Len(m) :
         m[j].kind = "close" /\ \A k \in i + 1..j - 1 : m[k].kind # "close"
  ELSE 0

RECURSIVE BlocksFrom(_, _)
BlocksFrom(m, i) ==
  IF i > Len(m) THEN {}
  ELSE IF m[i].kind = "open" /\ BlockEnd(m, i) # 0
  THEN {<<i, BlockEnd(m, i)>>} \cup BlocksFrom(m, BlockEnd(m, i) + 1)
  ELSE BlocksFrom(m, i + 1)

Occurs(sub, seq) ==
  \E k \in 0..Len(seq) - Len(sub) : SubSeq(seq, k + 1, k + Len(sub)) = sub

\* C22: every block opened by ::: or !!! and a keyword that is, without
\* regard to case, a known admonition kind is rewritten into a container
\* whose title is the explicit title, or else the capitalized kind, and
\* whose body is the body of the block (up to surrounding empty lines); a
\* block with another keyword is emitted unchanged, delimiters included.
C22_AdmonitionsRewritten ==
  \A b \in BlocksFrom(page.markdown, 1) :
    LET opener == page.markdown[b[1]]
        body == SubSeq(page.markdown, b[1] + 1, b[2] - 1)
    IN IF Lower(opener.type) \in ADMONITION_TYPES
       THEN \E k \in DOMAIN page.html :
              page.html[k] =
                [kind |-> "admonition", type |-> Lower(opener.type),
                 title |-> IF opener.title # "" THEN opener.title
                           ELSE Capitalize(Lower(opener.type)),
                 body |-> TrimBody(body)]
       ELSE Occurs(SubSeq(page.markdown, b[1], b[2]), page.html)

\* the tags of the items of section s that the claim calls available
ScopedTags(s) ==
  {t \in {"sunset", "bw", "travel", "food", "art"} :
     \E item \in gallery.items[s] :
       /\ gallery.category[s] \in {"all", item.category}
       /\ t \in Range(item.tags)}

\* C23 as stated: the available tags of each section of the gallery are the
\* distinct non-empty tags of the items of the selected category (of all
\* items under 'all'); every selection of a category resets the tag filter
\* of the section to 'all'; once the view has settled the selected tag is
\* 'all' or an available tag.
C23_CategoryClickResetsTag ==
  GalleryShown =>
    \A s \in Sections :
      /\ GalleryTags(s) = ScopedTags(s)
      /\ gallery.tag[s] \in {"all"} \cup GalleryTags(s)
      /\ (gallery.clicked = [filter |-> "category", section |-> s]) =>
           gallery.tag[s] = "all"

\* C23, amended: a selection that changes the category of the section
\* resets its tag filter to 'all' (selecting the category that is already
\* selected leaves the tag filter as it is); the rest as stated.
C23_CategoryChangeResetsTag ==
  /\ [](GalleryShown =>
          \A s \in Sections :
            /\ GalleryTags(s) = ScopedTags(s)
            /\ gallery.tag[s] \in {"all"} \cup GalleryTags(s))
  /\ [][\A s \in Sections :
          /\ gallery'.category[s] # gallery.category[s] =>
               s \in gallery'.effects
          /\ (s \in gallery.effects /\ s \notin gallery'.effects) =>
               gallery'.tag[s] = "all"
          /\ (gallery'.clicked = [filter |-> "category", section |-> s]
               /\ gallery'.category[s] = gallery.category[s]
               /\ gallery' # gallery /\ GalleryShown) =>
               gallery'.tag[s] = gallery.tag[s]]_vars

\* a tag was selected under a category, another category was selected, and
\* the view has settled with fewer tags available
C23_Witness ==
  /\ GalleryShown
  /\ gallery.clicked = [filter |-> "category", section |-> "photos"]
  /\ gallery.category["photos"] = "landscape"
  /\ gallery.tag["photos"] = "all"
  /\ GalleryTags("photos") = {"sunset"}
  /\ \E item \in gallery.items["photos"] : "bw" \in Range(item.tags)

\* C27: in every reachable state every blog post with published = true has a
\* publishedAt value, whatever the bodies of the authenticated CREATE and
\* UPDATE requests supply for published and publishedAt.
C27_PublishedHaveDate ==
  \A i \in DOMAIN db["blog"] :
    db["blog"][i].published => db["blog"][i].publishedAt # NoDate

\* no list request of the console awaits its response
NoListInFlight ==
  \A k \in DOMAIN admin.calls : admin.calls[k].kind # "list"

\* C28: in the admin console, whatever the interleaving of tab and sub-tab
\* changes, form submissions and list responses, once no list request is in
\* flight the held items are the response to the list request of the
\* selected tab and sub-tab (or the empty list the tab change left), never
\* the response to a request made for a tab selected before.
C28_ItemsOfSelectedTab ==
  NoListInFlight => admin.listed \in {"none", EndpointOf(admin)}

\* this step is handleReorder up to its await: a reorder request is added
ReorderSent ==
  /\ Len(admin'.calls) = Len(admin.calls) + 1
  /\ admin'.calls[Len(admin'.calls)].kind = "reorder"

\* this step is the answer of the server to the reorder request calls[k]
ReorderAnswered(k) ==
  /\ Idle
  /\ last'.op = "REORDER"
  /\ k \in DOMAIN admin.calls
  /\ admin.calls[k].kind = "reorder"
  /\ admin'.calls = RemoveAt(admin.calls, k)

\* C24 as stated: on an admin reorder action the held item list is set to
\* the swapped order before the REORDER response arrives.
C24_SwappedBeforeResponse ==
  [][ReorderSent => admin'.items = admin'.calls[Len(admin'.calls)].copy]_vars

\* C24, amended: an admin reorder action leaves the held item list as it is
\* until the REORDER response arrives; a successful response sets the list
\* to the swapped order computed when the button was pressed, a failed one
\* leaves the list unchanged and shows the error.
C24_SwappedOnSuccess ==
  [][/\ ReorderSent => admin'.items = admin.items
     /\ \A k \in DOMAIN admin.calls :
          ReorderAnswered(k) =>
            IF last'.status = 200
            THEN admin'.items = admin.calls[k].copy
            ELSE /\ admin'.items = admin.items
                 /\ admin'.message = Failure(last'.msg)]_vars

\* a reorder request was refused; the list is shown in the order it had
C24_Witness ==
  /\ last # NoRequest
  /\ last.op = "REORDER"
  /\ last.status = 401
  /\ admin.message.kind = "error"
  /\ admin.calls = <<>>
  /\ admin.items = ExperienceRows

\* C26: in the admin manage view, after a successful reorder started by
\* pressing up (down) on a row that is not the first (last) of the filtered
\* list, the item has moved by exactly one position in the filtered view,
\* also when a filter hides items of the full list.
C26_MovesOneRowInFilteredView ==
  [][\A k \in DOMAIN admin.calls :
       LET call == admin.calls[k]
           row == FindIndex(FilteredItems, call.itemId)
           after == FindIndex(Filtered(admin', admin'.items), call.itemId)
       IN (/\ ReorderAnswered(k)
           /\ last'.status = 200
           /\ call.copy = Swap(admin.items,
                               FindIndex(admin.items, call.itemId),
                               SwapIndex(call.itemId, call.direction))
           /\ row >= 0
           /\ IF call.direction = "up" THEN row > 0
              ELSE row < Len(FilteredItems) - 1)
          => after = IF call.direction = "up" THEN row - 1 ELSE row + 1]_vars

\* this step is handleSubmit up to its await: a submission is added
SubmitSent ==
  /\ Len(admin'.calls) = Len(admin.calls) + 1
  /\ admin'.calls[Len(admin'.calls)].kind = "submit"

\* this step is the answer of the server to the submission calls[k]
SubmitAnswered(k) ==
  /\ Idle
  /\ last'.op \in {"CREATE", "UPDATE"}
  /\ k \in DOMAIN admin.calls
  /\ admin.calls[k].kind = "submit"

\* C25: when the server rejects an admin form submission (create or
\* update), the console shows the message of the server and leaves formData,
\* editingId and the view mode as they were.
C25_RejectedSubmitKeepsForm ==
  [][\A k \in DOMAIN admin.calls :
       (SubmitAnswered(k) /\ last'.status \notin {200, 201}) =>
         /\ admin'.message = Failure(last'.msg)
         /\ last'.msg # ""
         /\ admin'.formData = admin.formData
         /\ admin'.editingId = admin.editingId
         /\ admin'.viewMode = admin.viewMode]_vars

\* the update of an opened skill category was refused, and the creation of
\* one without a category was refused: the form is still there
C25_Witness ==
  /\ last # NoRequest
  /\ last.status \in {400, 401}
  /\ last.op = IF last.status = 401 THEN "UPDATE" ELSE "CREATE"
  /\ admin.message = Failure(last.msg)
  /\ admin.viewMode = "create"
  /\ admin.formData # NoBody
  /\ (last.op = "UPDATE") = (admin.editingId # BadId)

\* C29: opening a skill category for editing and submitting the form
\* unchanged sends a skills array equal to the stored one: the same names
\* in the same order, each with its featured flag.
C29_SkillsRoundTrip ==
  [][\A i \in DOMAIN admin.items :
       (/\ SubmitSent
        /\ EndpointOf(admin) = "skills"
        /\ admin.editingId = admin.items[i]._id
        /\ Has("skills", admin.editingId)
        /\ db["skills"][admin.editingId] = admin.items[i]
        /\ admin.formData = EditData(admin, admin.items[i]))
       => admin'.calls[Len(admin'.calls)].body.skills
            = db["skills"][admin.editingId].skills]_vars

\* the manage view of the console has settled: the list is shown and no
\* request awaits its response
Settled ==
  /\ admin.isAuthenticated
  /\ ManageView
  /\ admin.calls = <<>>

\* C30: in every settled state of the admin manage view the selected tag
\* filter is 'all' or one of the tags derived from the held items, and the
\* selected category filter is 'all' or one of the categories derived from
\* them, across filter selections, deletes, refetches and tab changes.
C30_FiltersAmongAvailable ==
  Settled =>
    /\ admin.adminTagFilter \in {"all"} \cup AvailableTags
    /\ admin.adminCategoryFilter \in {"all"} \cup AvailableCategories

====
